---- MODULE Spec2Model ----
(***************************************************************************)
(* State-machine model of the orchestration core of devforge-ultra-full:   *)
(* brain/orchestrator.py (answer_question and its helpers) and the         *)
(* /api/ask handler of apps/api/main.py that wraps it.                     *)
(*                                                                         *)
(* Text is modelled as a sequence of one-character strings, so that        *)
(* strip(), lower(), substring tests and the regular expressions of the    *)
(* source are computed, not assumed.                                       *)
(***************************************************************************)
EXTENDS Integers, Sequences, FiniteSets, TLC

VARIABLES
    MEMORY,     \* orchestrator.MEMORY: deque(maxlen=50) of <<question, answer>>
    accepted,   \* history: every pair memory_add accepted, in append order
    env,        \* process environment: credentials and PROVIDER_ORDER
    pc,         \* position of the request being served
    req,        \* its inputs: question, force_provider, entry point
    q,          \* answer_question's local q (stripped question)
    iter,       \* the reversed(MEMORY) iterator: items left, mutation seen
    fut,        \* per provider: state of its call in the fan-out
    answers,    \* answer_question's local list answers
    used,       \* answer_question's local list used
    calls,      \* per provider: invocations by answer_question in this request
    got,        \* history: what the forced call and each fan-out call produced
    tried,      \* the stages this request has entered, in order
    added,      \* the pairs this request has appended to MEMORY
    expired,    \* the as_completed deadline TIMEOUT_S + 5 has expired
    ignored,    \* provider results that arrived after the deadline
    resp,       \* what answer_question returned (or that it raised)
    out,        \* what the entry point returned to its caller
    chat,       \* api_ask fallback: position in ensemble_chat's provider loop
    nreq,       \* requests started so far
    nother,     \* appends by concurrent requests so far
    prev,       \* history: the previous request's question, answer and stage
    fn,         \* pure-function harness: which function is applied
    arg,        \* pure-function harness: its input
    ret         \* pure-function harness: its result

vars == <<MEMORY, accepted, env, pc, req, q, iter, fut, answers, used, calls, got,
          tried, added, expired, ignored, resp, out, chat, nreq, nother, prev,
          fn, arg, ret>>

(***************************************************************************)
(* Text helpers: Python str methods on character sequences.                *)
(***************************************************************************)
WS == {" ", "\t", "\n"}

UPPER == <<"A","B","C","D","E","F","G","H","I","J","K","L","M",
           "N","O","P","Q","R","S","T","U","V","W","X","Y","Z">>

LOWER == <<"a","b","c","d","e","f","g","h","i","j","k","l","m",
           "n","o","p","q","r","s","t","u","v","w","x","y","z">>

DIGITS == <<"0","1","2","3","4","5","6","7","8","9">>

lower_char(c) ==
    IF \E i \in DOMAIN UPPER : UPPER[i] = c
    THEN LOWER[CHOOSE i \in DOMAIN UPPER : UPPER[i] = c]
    ELSE c

lower(s) == [i \in 1..Len(s) |-> lower_char(s[i])]

RECURSIVE lstrip(_)
lstrip(s) == IF s # <<>> /\ Head(s) \in WS THEN lstrip(Tail(s)) ELSE s

RECURSIVE rstrip(_)
rstrip(s) ==
    IF s # <<>> /\ s[Len(s)] \in WS THEN rstrip(SubSeq(s, 1, Len(s) - 1)) ELSE s

strip(s) == rstrip(lstrip(s))

\* s[i:] starts with pre (i is a 1-based index)
startswith_at(s, i, pre) ==
    /\ i + Len(pre) - 1 <= Len(s)
    /\ \A k \in 1..Len(pre) : s[i + k - 1] = pre[k]

\* Python's "sub in s"
contains(s, sub) == \E i \in 1..(Len(s) - Len(sub) + 1) : startswith_at(s, i, sub)

endswith(s, suf) ==
    /\ Len(suf) <= Len(s)
    /\ SubSeq(s, Len(s) - Len(suf) + 1, Len(s)) = suf

is_digit(c) == \E i \in DOMAIN DIGITS : DIGITS[i] = c

digit_val(c) == (CHOOSE i \in DOMAIN DIGITS : DIGITS[i] = c) - 1

\* str(n) of a natural number
RECURSIVE nat_str(_)
nat_str(n) ==
    IF n < 10 THEN <<DIGITS[n + 1]>>
    ELSE Append(nat_str(n \div 10), DIGITS[(n % 10) + 1])

(***************************************************************************)
(* sympify(expr).evalf() and str() on the strings _math_try lets through.  *)
(* A value is a rational n/d in lowest terms with d > 0, one of SymPy's    *)
(* non-numbers zoo (complex infinity, x/0) and nan (0/0), or err: the      *)
(* evaluation raised.                                                      *)
(***************************************************************************)
abs(x) == IF x < 0 THEN -x ELSE x

RECURSIVE gcd(_, _)
gcd(a, b) == IF b = 0 THEN a ELSE gcd(b, a % b)

rat(n, d) ==
    LET s == IF d < 0 THEN -1 ELSE 1
        g == gcd(abs(n), abs(d))
    IN  [k |-> "rat", n |-> (s * n) \div g, d |-> (s * d) \div g]

zoo == [k |-> "zoo", n |-> 0, d |-> 1]

nan == [k |-> "nan", n |-> 0, d |-> 1]

err == [k |-> "err", n |-> 0, d |-> 1]

\* floor of n/d, d > 0
floor_div(n, d) == IF n >= 0 THEN n \div d ELSE -((d - n - 1) \div d)

sym_neg(a) == IF a.k = "rat" THEN rat(-a.n, a.d) ELSE a

sym_add(a, b) ==
    IF a.k = "err" \/ b.k = "err" THEN err
    ELSE IF a.k = "nan" \/ b.k = "nan" THEN nan
    ELSE IF a.k = "zoo" /\ b.k = "zoo" THEN nan
    ELSE IF a.k = "zoo" \/ b.k = "zoo" THEN zoo
    ELSE rat(a.n * b.d + b.n * a.d, a.d * b.d)

sym_sub(a, b) == sym_add(a, sym_neg(b))

sym_mul(a, b) ==
    IF a.k = "err" \/ b.k = "err" THEN err
    ELSE IF a.k = "nan" \/ b.k = "nan" THEN nan
    ELSE IF a.k = "zoo" \/ b.k = "zoo"
         THEN IF (a.k = "rat" /\ a.n = 0) \/ (b.k = "rat" /\ b.n = 0) THEN nan ELSE zoo
    ELSE rat(a.n * b.n, a.d * b.d)

\* Rational.__truediv__: x/0 is zoo, 0/0 is nan; nothing is raised
sym_div(a, b) ==
    IF a.k = "err" \/ b.k = "err" THEN err
    ELSE IF a.k = "nan" \/ b.k = "nan" THEN nan
    ELSE IF b.k = "zoo" THEN (IF a.k = "zoo" THEN nan ELSE rat(0, 1))
    ELSE IF a.k = "zoo" THEN zoo
    ELSE IF b.n = 0 THEN (IF a.n = 0 THEN nan ELSE zoo)
    ELSE rat(a.n * b.d, a.d * b.n)

\* Integer.__mod__ / Mod: the sign follows the divisor; x % 0 raises ZeroDivisionError
sym_mod(a, b) ==
    IF a.k = "err" \/ b.k = "err" THEN err
    ELSE IF b.k = "rat" /\ b.n = 0 THEN err
    ELSE IF a.k # "rat" \/ b.k # "rat" THEN nan
    ELSE LET quo == rat(a.n * b.d, a.d * b.n)
             fl  == floor_div(quo.n, quo.d)
         IN  rat(a.n * b.d - fl * b.n * a.d, a.d * b.d)

apply_op(op, a, b) ==
    CASE op = "+" -> sym_add(a, b)
      [] op = "-" -> sym_sub(a, b)
      [] op = "*" -> sym_mul(a, b)
      [] op = "/" -> sym_div(a, b)
      [] op = "%" -> sym_mod(a, b)

char_at(s, i) == IF i <= Len(s) THEN s[i] ELSE "EOF"

RECURSIVE skip_spaces(_, _)
skip_spaces(s, i) == IF char_at(s, i) = " " THEN skip_spaces(s, i + 1) ELSE i

RECURSIVE scan_digits(_, _)
scan_digits(s, i) == IF is_digit(char_at(s, i)) THEN scan_digits(s, i + 1) ELSE i

RECURSIVE pow10(_)
pow10(n) == IF n = 0 THEN 1 ELSE 10 * pow10(n - 1)

\* value of the digit run s[i..j-1]
RECURSIVE digits_val(_, _, _)
digits_val(s, i, j) ==
    IF i >= j THEN 0 ELSE digits_val(s, i, j - 1) * 10 + digit_val(s[j - 1])

\* a NUMBER token at i: digits, digits '.' digits*, or '.' digits; an integer
\* literal with a leading zero is a syntax error
parse_number(s, i) ==
    LET j    == scan_digits(s, i)
        dot  == char_at(s, j) = "."
        e    == IF dot THEN scan_digits(s, j + 1) ELSE j
        ipart == digits_val(s, i, j)
        fpart == IF dot THEN digits_val(s, j + 1, e) ELSE 0
        flen  == IF dot THEN e - (j + 1) ELSE 0
    IN  IF j = i /\ (~dot \/ e = j + 1) THEN [v |-> err, i |-> i]
        ELSE IF ~dot /\ j - i > 1 /\ s[i] = "0" /\ ipart # 0 THEN [v |-> err, i |-> i]
        ELSE [v |-> rat(ipart * pow10(flen) + fpart, pow10(flen)), i |-> e]

\* binding strength of an operator on the stack: "u+" and "u-" are the signs
op_prec(op) ==
    CASE op = "(" -> 0
      [] op \in {"+", "-"} -> 1
      [] op \in {"*", "/", "%"} -> 2
      [] op \in {"u+", "u-"} -> 3

\* apply the operator on top of the stack to the values on top of the stack
sy_apply(vals, ops) ==
    LET op == ops[Len(ops)]
        n  == Len(vals)
    IN  IF op = "u-" THEN [vals EXCEPT ![n] = sym_neg(@)]
        ELSE IF op = "u+" THEN vals
        ELSE Append(SubSeq(vals, 1, n - 2), apply_op(op, vals[n - 1], vals[n]))

\* apply the stacked operators that bind at least as strongly as p
RECURSIVE sy_reduce(_, _, _)
sy_reduce(vals, ops, p) ==
    IF ops # <<>> /\ op_prec(ops[Len(ops)]) >= p
    THEN sy_reduce(sy_apply(vals, ops), SubSeq(ops, 1, Len(ops) - 1), p)
    ELSE [vals |-> vals, ops |-> ops]

\* Evaluation of the Python expression s from position i on, by operator
\* precedence: vals and ops are the stacks, want says that an operand is due.
\* Signs bind more strongly than * / %, which bind more strongly than + -;
\* equal operators associate to the left.  The result is err for a syntax
\* error and when an operation raises.  (The strings drawn below hold no
\* "**" and no "//".)
RECURSIVE sy_run(_, _, _, _, _)
sy_run(s, i, vals, ops, want) ==
    LET c == char_at(s, i)
    IN  IF c = " " THEN sy_run(s, i + 1, vals, ops, want)
        ELSE IF c = "EOF"
        THEN LET r == sy_reduce(vals, ops, 1)
             IN  IF ~want /\ r.ops = <<>> /\ Len(r.vals) = 1 THEN r.vals[1] ELSE err
        ELSE IF want
        THEN IF c \in {"+", "-"} THEN sy_run(s, i + 1, vals, Append(ops, "u" \o c), TRUE)
             ELSE IF c = "(" THEN sy_run(s, i + 1, vals, Append(ops, "("), TRUE)
             ELSE IF is_digit(c) \/ c = "."
             THEN LET num == parse_number(s, i)
                  IN  IF num.v.k = "err" THEN err
                      ELSE sy_run(s, num.i, Append(vals, num.v), ops, FALSE)
             ELSE err
        ELSE IF c \in {"+", "-", "*", "/", "%"}
             THEN LET r == sy_reduce(vals, ops, op_prec(c))
                  IN  sy_run(s, i + 1, r.vals, Append(r.ops, c), TRUE)
             ELSE IF c = ")"
             THEN LET r == sy_reduce(vals, ops, 1)
                  IN  IF r.ops # <<>> /\ r.ops[Len(r.ops)] = "("
                      THEN sy_run(s, i + 1, r.vals, SubSeq(r.ops, 1, Len(r.ops) - 1), FALSE)
                      ELSE err
             ELSE err

\* sympify(s): the value of the whole string, err when it does not parse or
\* its evaluation raises
sympify(s) == sy_run(s, 1, <<>>, <<>>, TRUE)

\* number of significant digits str() prints for a 53-bit Float
FLOAT_DPS == 15

\* count fractional digits of r/d (0 <= r < d), most significant first
RECURSIVE frac_digits(_, _, _)
frac_digits(r, d, count) ==
    IF count = 0 THEN <<>>
    ELSE <<DIGITS[((r * 10) \div d) + 1]>> \o frac_digits((r * 10) % d, d, count - 1)

\* the remainder left after count fractional digits
RECURSIVE frac_rem(_, _, _)
frac_rem(r, d, count) == IF count = 0 THEN r ELSE frac_rem((r * 10) % d, d, count - 1)

\* add one unit in the last place to a digit string (may grow by one digit)
RECURSIVE inc_digits(_)
inc_digits(ds) ==
    IF ds = <<>> THEN <<"1">>
    ELSE IF ds[Len(ds)] = "9"
         THEN Append(inc_digits(SubSeq(ds, 1, Len(ds) - 1)), "0")
         ELSE Append(SubSeq(ds, 1, Len(ds) - 1), DIGITS[digit_val(ds[Len(ds)]) + 2])

\* zeros between the decimal point and the first significant digit of n/d < 1
RECURSIVE lead_zeros(_, _)
lead_zeros(n, d) == IF n * 10 >= d THEN 0 ELSE 1 + lead_zeros(n * 10, d)

zeros(count) == [i \in 1..count |-> "0"]

\* str(Float) of the positive rational n/d: FLOAT_DPS significant digits in
\* fixed-point notation, trailing zeros kept
float_str_pos(n, d) ==
    LET ip    == n \div d
        ipd   == IF ip = 0 THEN <<>> ELSE nat_str(ip)
        lz    == IF ip = 0 THEN lead_zeros(n, d) ELSE 0
        r0    == IF ip = 0 THEN (n % d) * pow10(lz) ELSE n % d
        cnt   == FLOAT_DPS - Len(ipd)
        raw   == ipd \o frac_digits(r0, d, cnt)
        rem   == frac_rem(r0, d, cnt)
        up    == 2 * rem > d \/ (2 * rem = d /\ digit_val(raw[Len(raw)]) % 2 = 1)
        rnd   == IF up THEN inc_digits(raw) ELSE raw
        grew  == Len(rnd) > FLOAT_DPS
        sig   == SubSeq(rnd, 1, FLOAT_DPS)
        \* decimal exponent of the first significant digit
        ex    == (IF ip = 0 THEN -(lz + 1) ELSE Len(ipd) - 1) + (IF grew THEN 1 ELSE 0)
    IN  IF ex >= 0
        THEN SubSeq(sig, 1, ex + 1) \o <<".">> \o SubSeq(sig, ex + 2, FLOAT_DPS)
        ELSE <<"0", ".">> \o zeros(-ex - 1) \o sig

\* str(sympify(expr).evalf()): Integer 0 stays 0, every other number becomes a
\* Float printed with FLOAT_DPS significant digits
evalf_str(v) ==
    CASE v.k = "zoo" -> <<"z","o","o">>
      [] v.k = "nan" -> <<"n","a","n">>
      [] v.k = "rat" /\ v.n = 0 -> <<"0">>
      [] v.k = "rat" /\ v.n > 0 -> float_str_pos(v.n, v.d)
      [] v.k = "rat" /\ v.n < 0 -> <<"-">> \o float_str_pos(-v.n, v.d)

ALLOWED_MATH == {"0","1","2","3","4","5","6","7","8","9",
                 "+","-","*","/","(",")","%"," ","."}

MATH_OPS == {"+", "-", "*", "/", "%"}

\* variant: the operator test always passes
has_operator_any(expr) == TRUE

has_operator(expr) == \E i \in 1..Len(expr) : expr[i] \in MATH_OPS

\* _math_try(expr): "" (the empty sequence) means no match
math_try(expr) ==
    IF expr # <<>> /\ (\A i \in 1..Len(expr) : expr[i] \in ALLOWED_MATH)
                   /\ has_operator(expr)
    THEN LET val == sympify(expr)
         IN  IF val.k = "err" THEN <<>>
             ELSE LET s == evalf_str(val)
                  IN  IF endswith(s, <<".", "0">>) THEN SubSeq(s, 1, Len(s) - 2) ELSE s
    ELSE <<>>

(***************************************************************************)
(* Normalization helpers and the vote.                                     *)
(***************************************************************************)
RECURSIVE skip_ws(_, _)
skip_ws(s, i) == IF char_at(s, i) \in WS THEN skip_ws(s, i + 1) ELSE i

S_answer == <<"a","n","s","w","e","r">>

\* _strip_answer(text): strip, drop one leading "answer:" (any case), strip
strip_answer(text) ==
    IF text = <<>> THEN <<>>
    ELSE LET t  == strip(text)
             i  == skip_ws(t, 1)
             j  == skip_ws(t, i + Len(S_answer))
             e  == skip_ws(t, j + 1)
             hit == startswith_at(lower(t), i, S_answer) /\ char_at(t, j) = ":"
         IN  IF hit THEN strip(SubSeq(t, e, Len(t))) ELSE strip(t)

\* the backtick character (U+0060), which a TLA+ string literal cannot hold
BACKTICK == "BACKTICK"

\* re.sub of every run of backticks by ""
RECURSIVE drop_backticks(_)
drop_backticks(s) ==
    IF s = <<>> THEN <<>>
    ELSE IF Head(s) = BACKTICK THEN drop_backticks(Tail(s))
    ELSE <<Head(s)>> \o drop_backticks(Tail(s))

\* re.sub(r"\s+", " ", s)
RECURSIVE collapse_ws(_)
collapse_ws(s) ==
    IF s = <<>> THEN <<>>
    ELSE IF Head(s) \in WS THEN <<" ">> \o collapse_ws(lstrip(s))
    ELSE <<Head(s)>> \o collapse_ws(Tail(s))

\* _normalize_for_vote(s)
normalize_for_vote(s) == collapse_ws(drop_backticks(lower(strip(s))))

\* the dict counts after the loop of _vote_select, as the sequence of its
\* entries [n, count, raw] in insertion order
RECURSIVE vote_counts(_)
vote_counts(candidates) ==
    IF candidates = <<>> THEN <<>>
    ELSE LET before == vote_counts(SubSeq(candidates, 1, Len(candidates) - 1))
             raw    == candidates[Len(candidates)]
             n      == normalize_for_vote(raw)
         IN  IF n = <<>> THEN before
             ELSE IF \E i \in DOMAIN before : before[i].n = n
             THEN [i \in DOMAIN before |->
                     IF before[i].n = n
                     THEN [before[i] EXCEPT !.count = @ + 1]
                     ELSE before[i]]
             ELSE Append(before, [n |-> n, count |-> 1, raw |-> raw])

\* variant: a sort key of the count alone
key_less_count(a, b) == a.count < b.count

\* the sort key of an entry is (count, len(raw)), compared as tuples
key_less(a, b) ==
    \/ a.count < b.count
    \/ a.count = b.count /\ Len(a.raw) < Len(b.raw)

\* variant: the first entry in insertion order, whatever its count
vote_first_inserted(counts) == counts[1]

\* ranked[0] of the stable sort with reverse=True: the first entry, in
\* insertion order, that no entry beats
vote_first(counts) ==
    counts[CHOOSE i \in DOMAIN counts :
              /\ \A j \in DOMAIN counts : ~key_less(counts[i], counts[j])
              /\ \A j \in 1..(i - 1) : key_less(counts[j], counts[i])]

\* variant: the normalized text of the winning group is returned
vote_select_normalized(candidates) ==
    IF candidates = <<>> THEN <<>>
    ELSE LET counts == vote_counts(candidates)
         IN  IF counts = <<>> THEN candidates[1] ELSE vote_first(counts).n

\* _vote_select(candidates)
vote_select(candidates) ==
    IF candidates = <<>> THEN <<>>
    ELSE LET counts == vote_counts(candidates)
         IN  IF counts = <<>> THEN candidates[1] ELSE vote_first(counts).raw

(***************************************************************************)
(* Tiny internal facts.                                                    *)
(***************************************************************************)
\* FACTS, in the order of the dict
FACTS == <<
    [k |-> <<"c","a","p","i","t","a","l"," ","c","i","t","y"," ","o","f"," ","k","e","n","y","a">>,
     v |-> <<"N","a","i","r","o","b","i">>],
    [k |-> <<"c","a","p","i","t","a","l"," ","c","i","t","y"," ","o","f"," ","t","a","n","z","a","n","i","a">>,
     v |-> <<"D","o","d","o","m","a">>],
    [k |-> <<"p","r","e","s","i","d","e","n","t"," ","o","f"," ","c","h","i","n","a">>,
     v |-> <<"X","i"," ","J","i","n","p","i","n","g">>],
    [k |-> <<"m","o","u","n","t"," ","k","e","n","y","a"," ","c","o","n","t","i","n","e","n","t">>,
     v |-> <<"A","f","r","i","c","a">>],
    [k |-> <<"l","a","r","g","e","s","t"," ","m","o","u","n","t","a","i","n"," ","i","n"," ","t","h","e"," ","w","o","r","l","d">>,
     v |-> <<"M","o","u","n","t"," ","E","v","e","r","e","s","t">>] >>

\* _CAPITAL_OF
CAPITAL_OF == <<
    [k |-> <<"k","e","n","y","a">>, v |-> <<"N","a","i","r","o","b","i">>],
    [k |-> <<"t","a","n","z","a","n","i","a">>, v |-> <<"D","o","d","o","m","a">>],
    [k |-> <<"s","o","u","t","h"," ","a","f","r","i","c","a">>,
     v |-> <<"P","r","e","t","o","r","i","a"," ","(","a","d","m","i","n","i","s","t","r","a","t","i","v","e",")",","," ","C","a","p","e"," ","T","o","w","n"," ","(","l","e","g","i","s","l","a","t","i","v","e",")",","," ","B","l","o","e","m","f","o","n","t","e","i","n"," ","(","j","u","d","i","c","i","a","l",")">>] >>

\* dict.get(key): the value, or <<>> for None
dict_get(table, key) ==
    IF \E i \in DOMAIN table : table[i].k = key
    THEN table[CHOOSE i \in DOMAIN table : table[i].k = key].v
    ELSE <<>>

S_capital == <<"c","a","p","i","t","a","l">>

S_city == <<"c","i","t","y">>

S_of == <<"o","f">>

S_sp_of_sp == <<" ","o","f"," ">>

\* the character class [a-z\s\-]
in_country_class(c) == (\E i \in DOMAIN LOWER : LOWER[i] = c) \/ c \in WS \/ c = "-"

RECURSIVE scan_country(_, _)
scan_country(s, i) ==
    IF in_country_class(char_at(s, i)) THEN scan_country(s, i + 1) ELSE i

\* capital\s+(city\s+)?of\s+([a-z\s\-]+)\?? matched at position i: whether it
\* matches and group(2). \s+ is greedy and gives one blank back to group(2)
\* when nothing else can fill it.
capital_match_at(s, i) ==
    LET a   == i + Len(S_capital)
        b   == skip_ws(s, a)
        city == startswith_at(s, b, S_city) /\ skip_ws(s, b + Len(S_city)) > b + Len(S_city)
        c   == IF city THEN skip_ws(s, b + Len(S_city)) ELSE b
        d   == c + Len(S_of)
        e   == skip_ws(s, d)
        f   == scan_country(s, e)
        ok  == /\ startswith_at(s, i, S_capital)
               /\ b > a
               /\ startswith_at(s, c, S_of)
               /\ e > d
               /\ (f > e \/ e > d + 1)
    IN  [ok |-> ok, country |-> IF ok /\ f > e THEN SubSeq(s, e, f - 1) ELSE <<" ">>]

\* re.search: the leftmost match
capital_search(s) ==
    IF \E i \in 1..Len(s) : capital_match_at(s, i).ok
    THEN capital_match_at(s,
            CHOOSE i \in 1..Len(s) :
                /\ capital_match_at(s, i).ok
                /\ \A j \in 1..(i - 1) : ~capital_match_at(s, j).ok)
    ELSE [ok |-> FALSE, country |-> <<>>]

\* stage (2) of answer_question on the lowercased question: the answer of
\* the capital pattern, else of the first FACTS key found in ql, else <<>>
facts_try(ql) ==
    LET m_cap   == capital_search(ql)
        ans_cap == IF contains(ql, S_capital) /\ contains(ql, S_sp_of_sp) /\ m_cap.ok
                   THEN dict_get(CAPITAL_OF, strip(m_cap.country))
                   ELSE <<>>
    IN  IF ans_cap # <<>> THEN ans_cap
        ELSE IF \E i \in DOMAIN FACTS : contains(ql, FACTS[i].k)
        THEN FACTS[CHOOSE i \in DOMAIN FACTS :
                      /\ contains(ql, FACTS[i].k)
                      /\ \A j \in 1..(i - 1) : ~contains(ql, FACTS[j].k)].v
        ELSE <<>>

(***************************************************************************)
(* Short-term memory, providers and the environment.                       *)
(***************************************************************************)
\* deque(maxlen=50)
MEMORY_MAXLEN == 50

\* variant: an append that never evicts
deque_append_unbounded(mem, item) == Append(mem, item)

\* deque.append on a bounded deque: one call, which drops the oldest item of
\* a full deque
deque_append(mem, item) ==
    IF Len(mem) >= MEMORY_MAXLEN THEN Append(Tail(mem), item) ELSE Append(mem, item)

\* variant: memory_add without the test of q and a
memory_add_unchecked(mem, question, a) == deque_append(mem, <<question, a>>)

\* memory_add(q, a)
memory_add(mem, question, a) ==
    IF question # <<>> /\ a # <<>> THEN deque_append(mem, <<question, a>>) ELSE mem

\* the keys of _PROVIDER_FUNCS
Providers == {"openai", "anthropic", "google", "mistral", "cohere"}

DEFAULT_ORDER == <<"openai", "anthropic", "google", "mistral", "cohere">>

Range(f) == {f[i] : i \in DOMAIN f}

IsKnown(p) == p \in Providers

\* variant: the configured order, whatever provider is forced
provider_order_unforced(force, order_env) ==
    IF SelectSeq(order_env, LAMBDA p : p \in Providers) # <<>>
    THEN SelectSeq(order_env, LAMBDA p : p \in Providers)
    ELSE DEFAULT_ORDER

\* variant: PROVIDER_ORDER is not read
provider_order_default(force, order_env) ==
    IF force # "" /\ force \in Providers THEN <<force>> ELSE DEFAULT_ORDER

\* _provider_order(force_provider), PROVIDER_ORDER given as its comma-separated
\* entries; "" is None
provider_order(force, order_env) ==
    IF force # "" /\ force \in Providers THEN <<force>>
    ELSE LET order == SelectSeq(order_env, IsKnown)
         IN  IF order # <<>> THEN order ELSE DEFAULT_ORDER

\* variant: every provider of order counts as active
active_providers_nokeys(order, keys) ==
    SelectSeq(DEFAULT_ORDER, LAMBDA p : p \in Range(order))

\* _active_providers(order): the providers of order with a key, in the fixed
\* order of the function's tests
active_providers(order, keys) ==
    LET Has(p) == p \in Range(order) /\ p \in keys
    IN  SelectSeq(DEFAULT_ORDER, Has)

\* providers._order(): PROVIDER_ORDER, or all five when it is unset
chat_order(order_env) ==
    IF order_env = <<>> THEN DEFAULT_ORDER ELSE SelectSeq(order_env, IsKnown)

SENTINEL == <<"I"," ","d","o","n","'","t"," ","h","a","v","e"," ","a","n"," ","e","x","a","c","t"," ","a","n","s","w","e","r"," ","y","e","t"," ","f","o","r"," ","t","h","a","t",".">>

PLEASE_TYPE == <<"P","l","e","a","s","e"," ","t","y","p","e"," ","a"," ","q","u","e","s","t","i","o","n",".">>

\* a response dict of answer_question, or the exception it raised
Response(answer, provider, providers_used, from_memory) ==
    [kind |-> "response", answer |-> answer, provider |-> provider,
     used |-> providers_used, from_memory |-> from_memory, exc |-> ""]

Raised(exc) ==
    [kind |-> "raised", answer |-> <<>>, provider |-> "", used |-> <<>>,
     from_memory |-> FALSE, exc |-> exc]

NoResponse ==
    [kind |-> "none", answer |-> <<>>, provider |-> "", used |-> <<>>,
     from_memory |-> FALSE, exc |-> ""]

\* the last-resort response of answer_question
SentinelResponse == Response(SENTINEL, "none", <<>>, FALSE)

(***************************************************************************)
(* Bounds and the inputs drawn in the model.                               *)
(***************************************************************************)
\* requests served in one behaviour
MaxRequests == 2

\* appends by concurrent requests in one behaviour
MaxOther == 1

Q_math == <<"2","+","2">>

Q_capital == <<"C","a","p","i","t","a","l"," ","o","f"," ","K","e","n","y","a","?">>

Q_hi == <<"h","i">>

Q_HI == <<" ","H","I"," ">>

Questions == {Q_math, Q_capital, Q_hi, Q_HI, <<>>}

\* force_provider: None, a known provider, an unknown name
Forces == {"", "openai", "mistral", "bogus"}

T_Paris == <<"P","a","r","i","s">>

T_Rome == <<"a","n","s","w","e","r",":"," ","R","o","m","e">>

T_blank == <<"A","n","s","w","e","r",":">>

\* what a provider's call can produce: text, None, or an exception of the
\* transport (requests.post is outside the adapter's try)
ProviderTexts == {T_Paris, T_Rome, T_blank}

Outcomes == [kind : {"text"}, text : ProviderTexts]
            \cup {[kind |-> "none", text |-> <<>>], [kind |-> "raise", text |-> <<>>]}

\* the credentials of the process
KeySets == {{}, {"openai"}, {"openai", "google"}}

\* PROVIDER_ORDER: unset, or a list with an unknown entry
OrderEnvs == {<<>>, <<"google", "bogus", "openai">>}

\* earlier exchanges: pair i of a memory that already holds some
Filler(i) == <<<<"f">> \o nat_str(i), <<"a">> \o nat_str(i)>>

\* a memory one short of full
AlmostFull == [i \in 1..(MEMORY_MAXLEN - 1) |-> Filler(i)]

Envs == [keys : KeySets, order : OrderEnvs]

\* the process as a request finds it: a fresh memory under every environment,
\* or an almost full memory under one of them
InitStates ==
    {[mem |-> <<>>, env |-> e] : e \in Envs}
    \cup {[mem |-> AlmostFull, env |-> [keys |-> {"openai"}, order |-> <<>>]]}

\* what a concurrent request may append
OtherPairs == {<<<<"H","I">>, <<"R","o","m","e">>>>}

NoCalls == [p \in Providers |-> 0]

NoFutures == [p \in Providers |-> "idle"]

\* what a call is seen to produce: its text, or nothing usable
NoOutcome == [kind |-> "unset", text |-> <<>>]

Absent == [kind |-> "absent", text |-> <<>>]

Seen(o) == IF o.kind = "text" THEN o ELSE Absent

NoGot == [forced |-> NoOutcome, by |-> [p \in Providers |-> NoOutcome]]

NoIter == [left |-> 0, stale |-> FALSE]

\* no earlier request, or one whose question was blank or that
\* answer_question gave no answer to
NoPrev == [question |-> <<>>, answer |-> <<>>, stage |-> "none", nother |-> 0]

NoReq == [question |-> <<>>, force |-> "", api |-> FALSE]

(***************************************************************************)
(* The request being served: answer_question, called directly or by the    *)
(* /api/ask handler, one step per stage and per provider event.  Requests  *)
(* of other threads show as the appends they make to MEMORY.               *)
(***************************************************************************)
harness == <<fn, arg, ret>>

locals == <<req, q, iter, fut, answers, used, calls, got, tried, added, expired,
            ignored, resp, out, chat>>

IdleRequest ==
    /\ pc = "idle"
    /\ req = NoReq
    /\ q = <<>>
    /\ iter = NoIter
    /\ fut = NoFutures
    /\ answers = <<>>
    /\ used = <<>>
    /\ calls = NoCalls
    /\ got = NoGot
    /\ tried = <<>>
    /\ added = <<>>
    /\ expired = FALSE
    /\ ignored = {}
    /\ resp = NoResponse
    /\ out = NoResponse
    /\ chat = 0
    /\ nreq = 0
    /\ nother = 0

Init ==
    /\ \E s \in InitStates :
        /\ MEMORY = s.mem
        /\ env = s.env
    /\ accepted = MEMORY
    /\ prev = NoPrev
    /\ IdleRequest
    /\ fn = "none"
    /\ arg = <<>>
    /\ ret = <<>>

\* a call of memory_add(question, a) by the request being served
MemAdd(question, a) ==
    /\ MEMORY' = memory_add(MEMORY, question, a)
    /\ accepted' = IF question # <<>> /\ a # <<>>
                   THEN Append(accepted, <<question, a>>) ELSE accepted
    /\ added' = IF question # <<>> /\ a # <<>>
                THEN Append(added, <<question, a>>) ELSE added

\* answer_question returns r (or raises)
Return(r) ==
    /\ resp' = r
    /\ pc' = "returned"

\* the request is over for its caller
Finished == pc = "api_done" \/ (pc = "returned" /\ ~req.api)

\* A request arrives: answer_question(question, force_provider) directly, or
\* api_ask, which rejects a blank message and else calls answer_question(q).
\* answer_question strips the question and sleeps.
Start ==
    /\ pc = "idle"
    /\ nreq < MaxRequests
    /\ nreq' = nreq + 1
    /\ \E question \in Questions, force \in Forces, api \in BOOLEAN :
        /\ api => force = ""
        /\ req' = [question |-> question, force |-> force, api |-> api]
        /\ q' = strip(question)
        /\ IF api /\ strip(question) = <<>>
           THEN /\ pc' = "api_done"
                /\ out' = Response(PLEASE_TYPE, "none", <<>>, FALSE)
           ELSE /\ pc' = "math"
                /\ out' = out
    /\ UNCHANGED <<MEMORY, accepted, env, prev, iter, fut, answers, used, calls, got, tried,
                   added, expired, ignored, resp, chat, nother, harness>>

\* variant: a math match is recorded but the request goes on to the next stage
StageMathNoReturn ==
    /\ pc = "math"
    /\ tried' = Append(tried, "math")
    /\ MemAdd(q, math_try(lower(q)))
    /\ pc' = "facts"
    /\ UNCHANGED <<env, prev, req, q, iter, fut, answers, used, calls, got, expired, ignored,
                   resp, out, chat, nreq, nother, harness>>

\* (1) math
StageMath ==
    /\ pc = "math"
    /\ tried' = Append(tried, "math")
    /\ LET m == math_try(lower(q))
       IN  IF m # <<>>
           THEN /\ MemAdd(q, m)
                /\ Return(Response(m, "local-math", <<>>, FALSE))
           ELSE /\ pc' = "facts"
                /\ UNCHANGED <<MEMORY, accepted, added, resp>>
    /\ UNCHANGED <<env, prev, req, q, iter, fut, answers, used, calls, got, expired, ignored,
                   out, chat, nreq, nother, harness>>

\* (2) facts and the capital pattern
StageFacts ==
    /\ pc = "facts"
    /\ tried' = Append(tried, "facts")
    /\ LET v == facts_try(lower(q))
       IN  IF v # <<>>
           THEN /\ MemAdd(q, v)
                /\ Return(Response(v, "local-facts", <<>>, FALSE))
           ELSE /\ pc' = "memory"
                /\ UNCHANGED <<MEMORY, accepted, added, resp>>
    /\ UNCHANGED <<env, prev, req, q, iter, fut, answers, used, calls, got, expired, ignored,
                   out, chat, nreq, nother, harness>>

\* (3) memory exact: reversed(MEMORY) creates the iterator
StageMemory ==
    /\ pc = "memory"
    /\ tried' = Append(tried, "memory")
    /\ iter' = [left |-> Len(MEMORY), stale |-> FALSE]
    /\ pc' = "scan"
    /\ UNCHANGED <<MEMORY, accepted, env, prev, req, q, fut, answers, used, calls, got, added,
                   expired, ignored, resp, out, chat, nreq, nother, harness>>

\* variant: the memory test without lower()
memory_match_exact(qq, aa, ql) == qq = ql /\ aa # <<>>

\* the test of the memory loop: qq.lower() == ql and aa
memory_match(qq, aa, ql) == lower(qq) = ql /\ aa # <<>>

\* variant: a pair that matches is taken out of MEMORY when it is returned
ScanNextConsume ==
    /\ pc = "scan"
    /\ IF iter.left = 0
       THEN /\ pc' = "route"
            /\ UNCHANGED <<MEMORY, iter, resp>>
       ELSE IF iter.stale
       THEN /\ Return(Raised("RuntimeError"))
            /\ UNCHANGED <<MEMORY, iter>>
       ELSE LET qq == MEMORY[iter.left][1]
                aa == MEMORY[iter.left][2]
            IN  IF lower(qq) = lower(q) /\ aa # <<>>
                THEN /\ Return(Response(aa, "local-memory", <<>>, TRUE))
                     /\ MEMORY' = [i \in 1..(Len(MEMORY) - 1) |->
                                      IF i < iter.left THEN MEMORY[i] ELSE MEMORY[i + 1]]
                     /\ iter' = iter
                ELSE /\ iter' = [iter EXCEPT !.left = @ - 1]
                     /\ UNCHANGED <<MEMORY, pc, resp>>
    /\ UNCHANGED <<accepted, env, prev, req, q, fut, answers, used, calls, got, tried,
                   added, expired, ignored, out, chat, nreq, nother, harness>>

\* one turn of the loop over reversed(MEMORY): the iterator ends when no item
\* is left, raises RuntimeError when the deque was appended to since it was
\* created, and else yields the next older pair
ScanNext ==
    /\ pc = "scan"
    /\ IF iter.left = 0
       THEN /\ pc' = "route"
            /\ UNCHANGED <<iter, resp>>
       ELSE IF iter.stale
       THEN /\ Return(Raised("RuntimeError"))
            /\ iter' = iter
       ELSE LET qq == MEMORY[iter.left][1]
                aa == MEMORY[iter.left][2]
            IN  IF memory_match(qq, aa, lower(q))
                THEN /\ Return(Response(aa, "local-memory", <<>>, TRUE))
                     /\ iter' = iter
                ELSE /\ iter' = [iter EXCEPT !.left = @ - 1]
                     /\ UNCHANGED <<pc, resp>>
    /\ UNCHANGED <<MEMORY, accepted, env, prev, req, q, fut, answers, used, calls, got, tried,
                   added, expired, ignored, out, chat, nreq, nother, harness>>

\* the providers this request may call
Active == active_providers(provider_order(req.force, env.order), env.keys)

\* ex.submit for every active provider
Submit ==
    /\ pc' = "collect"
    /\ fut' = [p \in Providers |-> IF p \in Range(Active) THEN "running" ELSE fut[p]]
    /\ calls' = [p \in Providers |-> IF p \in Range(Active) THEN calls[p] + 1 ELSE calls[p]]

\* (4) model(s): the forced provider is called alone when it is active, else
\* the fan-out starts
Route ==
    /\ pc = "route"
    /\ tried' = Append(tried, "providers")
    /\ IF req.force # "" /\ req.force \in Range(Active)
       THEN /\ pc' = "forced"
            /\ calls' = [calls EXCEPT ![req.force] = @ + 1]
            /\ fut' = fut
       ELSE Submit
    /\ UNCHANGED <<MEMORY, accepted, env, prev, req, q, iter, answers, used, got, added,
                   expired, ignored, resp, out, chat, nreq, nother, harness>>

\* variant: the text of the forced call is recorded but the fan-out starts
\* all the same
ForcedReturnNoReturn ==
    /\ pc = "forced"
    /\ \E o \in Outcomes :
        /\ got' = [got EXCEPT !.forced = Seen(o)]
        /\ MemAdd(q, IF o.kind = "text" THEN strip_answer(o.text) ELSE <<>>)
    /\ Submit
    /\ UNCHANGED <<env, prev, req, q, iter, answers, used, tried, expired, ignored, resp,
                   out, chat, nreq, nother, harness>>

\* the forced call ends: its text is the answer, anything else falls through
\* to the fan-out
ForcedReturn ==
    /\ pc = "forced"
    /\ \E o \in Outcomes :
        /\ got' = [got EXCEPT !.forced = Seen(o)]
        /\ IF o.kind = "text"
           THEN /\ MemAdd(q, strip_answer(o.text))
                /\ Return(Response(strip_answer(o.text), req.force, <<req.force>>, FALSE))
                /\ UNCHANGED <<fut, calls>>
           ELSE /\ Submit
                /\ UNCHANGED <<MEMORY, accepted, added, resp>>
    /\ UNCHANGED <<env, prev, req, q, iter, answers, used, tried, expired, ignored, out,
                   chat, nreq, nother, harness>>

\* a provider call ends before the deadline and as_completed yields it
Complete ==
    /\ pc = "collect"
    /\ \E p \in Providers, o \in Outcomes :
        /\ fut[p] = "running"
        /\ fut' = [fut EXCEPT ![p] = "done"]
        /\ got' = [got EXCEPT !.by[p] = Seen(o)]
        /\ IF o.kind = "text"
           THEN /\ answers' = Append(answers, strip_answer(o.text))
                /\ used' = Append(used, p)
           ELSE UNCHANGED <<answers, used>>
    /\ UNCHANGED <<MEMORY, accepted, env, prev, pc, req, q, iter, calls, tried, added,
                   expired, ignored, resp, out, chat, nreq, nother, harness>>

\* TIMEOUT_S + 5 pass with a call still running: as_completed raises
\* TimeoutError out of the loop, and leaving the with block waits for the
\* pool to shut down
Deadline ==
    /\ pc = "collect"
    /\ \E p \in Providers : fut[p] = "running"
    /\ expired' = TRUE
    /\ pc' = "shutdown"
    /\ UNCHANGED <<MEMORY, accepted, env, prev, req, q, iter, fut, answers, used, calls, got,
                   tried, added, ignored, resp, out, chat, nreq, nother, harness>>

\* a call that outlived the deadline ends; nobody reads its result
LateComplete ==
    /\ pc = "shutdown"
    /\ \E p \in Providers :
        /\ fut[p] = "running"
        /\ fut' = [fut EXCEPT ![p] = "done"]
        /\ ignored' = ignored \cup {p}
    /\ UNCHANGED <<MEMORY, accepted, env, prev, pc, req, q, iter, answers, used, calls, got,
                   tried, added, expired, resp, out, chat, nreq, nother, harness>>

\* the pool has shut down: the TimeoutError leaves answer_question
RaiseTimeout ==
    /\ pc = "shutdown"
    /\ \A p \in Providers : fut[p] # "running"
    /\ Return(Raised("TimeoutError"))
    /\ UNCHANGED <<MEMORY, accepted, env, prev, req, q, iter, fut, answers, used, calls, got,
                   tried, added, expired, ignored, out, chat, nreq, nother, harness>>

\* variant: every voted response is labelled "ensemble"
provider_label_ensemble(u) == IF u # <<>> THEN "ensemble" ELSE "unknown"

\* provider_label of the voted response
provider_label(u) ==
    IF Len(u) > 1 THEN "ensemble" ELSE IF u # <<>> THEN u[1] ELSE "unknown"

\* every call was collected: vote, or (5) last resort
Finish ==
    /\ pc = "collect"
    /\ \A p \in Providers : fut[p] # "running"
    /\ IF answers # <<>>
       THEN LET final == vote_select(answers)
                label == provider_label(used)
            IN  /\ MemAdd(q, final)
                /\ Return(Response(final, label, used, FALSE))
       ELSE /\ Return(SentinelResponse)
            /\ UNCHANGED <<MEMORY, accepted, added>>
    /\ UNCHANGED <<env, prev, req, q, iter, fut, answers, used, calls, got, tried, expired,
                   ignored, out, chat, nreq, nother, harness>>

\* api_ask after answer_question: an exception propagates; a non-empty answer
\* is added to memory and returned; else the retrieval index is queried and
\* ensemble_chat starts
ApiAfter ==
    /\ pc = "returned"
    /\ req.api
    /\ IF resp.kind = "raised"
       THEN /\ out' = resp
            /\ pc' = "api_done"
            /\ UNCHANGED <<MEMORY, accepted, added, chat>>
       ELSE IF resp.answer # <<>>
       THEN /\ MemAdd(q, resp.answer)
            /\ out' = Response(resp.answer, resp.provider, <<>>, FALSE)
            /\ pc' = "api_done"
            /\ chat' = chat
       ELSE /\ pc' = "chat"
            /\ chat' = 1
            /\ UNCHANGED <<MEMORY, accepted, added, out>>
    /\ UNCHANGED <<env, prev, req, q, iter, fut, answers, used, calls, got, tried, expired,
                   ignored, resp, nreq, nother, harness>>

\* one turn of ensemble_chat's loop, then api_ask's tail: the first non-empty
\* stripped text wins; a provider without a key returns None at once; after
\* the last provider the sentinel text is the answer
ChatNext ==
    /\ pc = "chat"
    /\ LET order == chat_order(env.order)
       IN  IF chat > Len(order)
           THEN /\ MemAdd(q, SENTINEL)
                /\ out' = Response(SENTINEL, "ensemble", <<>>, FALSE)
                /\ pc' = "api_done"
                /\ chat' = chat
           ELSE \E o \in Outcomes :
                /\ order[chat] \notin env.keys => o.kind = "none"
                /\ IF o.kind = "text" /\ strip(o.text) # <<>>
                   THEN /\ MemAdd(q, strip(o.text))
                        /\ out' = Response(strip(o.text), "ensemble", <<>>, FALSE)
                        /\ pc' = "api_done"
                        /\ chat' = chat
                   ELSE /\ chat' = chat + 1
                        /\ UNCHANGED <<MEMORY, accepted, added, out, pc>>
    /\ UNCHANGED <<env, prev, req, q, iter, fut, answers, used, calls, got, tried, expired,
                   ignored, resp, nreq, nother, harness>>

\* the caller has its result; the next request may arrive
Reset ==
    /\ Finished
    /\ pc' = "idle"
    /\ req' = NoReq
    /\ q' = <<>>
    /\ iter' = NoIter
    /\ fut' = NoFutures
    /\ answers' = <<>>
    /\ used' = <<>>
    /\ calls' = NoCalls
    /\ got' = NoGot
    /\ tried' = <<>>
    /\ added' = <<>>
    /\ expired' = FALSE
    /\ ignored' = {}
    /\ resp' = NoResponse
    /\ out' = NoResponse
    /\ chat' = 0
    /\ UNCHANGED <<MEMORY, accepted, env, prev, nreq, nother, harness>>

\* memory_add by a request running in another thread, while this one is being
\* served; a live iterator sees the mutation
OtherAdd ==
    /\ pc # "idle"
    /\ ~Finished
    /\ nother < MaxOther
    /\ nother' = nother + 1
    /\ \E pair \in OtherPairs :
        /\ MEMORY' = memory_add(MEMORY, pair[1], pair[2])
        /\ accepted' = Append(accepted, pair)
    /\ iter' = IF pc = "scan" THEN [iter EXCEPT !.stale = TRUE] ELSE iter
    /\ UNCHANGED <<env, prev, pc, req, q, fut, answers, used, calls, got, tried, added, expired,
                   ignored, resp, out, chat, nreq, harness>>

Next ==
    \/ Start
    \/ StageMath
    \/ StageFacts
    \/ StageMemory
    \/ ScanNext
    \/ Route
    \/ ForcedReturn
    \/ Complete
    \/ Deadline
    \/ LateComplete
    \/ RaiseTimeout
    \/ Finish
    \/ ApiAfter
    \/ ChatNext
    \/ Reset
    \/ OtherAdd

Spec == Init /\ [][Next]_vars

(***************************************************************************)
(* Two calls in a row: the same request machine, which also keeps what the *)
(* previous call asked and returned, under one environment with two        *)
(* credentials and a fresh memory.                                         *)
(***************************************************************************)
InitTwice ==
    /\ Init
    /\ MEMORY = <<>>
    /\ env = [keys |-> {"openai", "google"}, order |-> <<>>]

\* the caller has its result and the next request may arrive; the question,
\* the answer and the stage of the call that ends are kept
ResetRecord ==
    /\ Finished
    /\ pc' = "idle"
    /\ req' = NoReq
    /\ q' = <<>>
    /\ iter' = NoIter
    /\ fut' = NoFutures
    /\ answers' = <<>>
    /\ used' = <<>>
    /\ calls' = NoCalls
    /\ got' = NoGot
    /\ tried' = <<>>
    /\ added' = <<>>
    /\ expired' = FALSE
    /\ ignored' = {}
    /\ resp' = NoResponse
    /\ out' = NoResponse
    /\ chat' = 0
    /\ prev' = IF /\ resp.kind = "response"
                  /\ resp.answer # <<>>
                  /\ resp.provider # "none"
                  /\ strip(req.question) # <<>>
               THEN [question |-> req.question, answer |-> resp.answer,
                     stage |-> IF resp.provider \in {"local-math", "local-facts", "local-memory"}
                               THEN resp.provider ELSE "providers",
                     nother |-> nother]
               ELSE NoPrev
    /\ UNCHANGED <<MEMORY, accepted, env, nreq, nother, harness>>

NextTwice ==
    \/ Start
    \/ StageMath
    \/ StageFacts
    \/ StageMemory
    \/ ScanNext
    \/ Route
    \/ ForcedReturn
    \/ Complete
    \/ Deadline
    \/ LateComplete
    \/ RaiseTimeout
    \/ Finish
    \/ ApiAfter
    \/ ChatNext
    \/ ResetRecord
    \/ OtherAdd

SpecTwice == InitTwice /\ [][NextTwice]_vars

(***************************************************************************)
(* Pure functions applied to drawn inputs: _math_try and _vote_select.     *)
(***************************************************************************)
\* one-digit operands
DigitChars == Range(DIGITS)

Q_42 == <<"4","2">>

\* expressions beyond one operator between two digits
MathExtras ==
    { Q_42, <<"2","+">>, <<"(","1","+","2",")","*","3">>,
      <<"1"," ","+"," ","2">>, <<"-","7","%","3">>, <<"1",".","5","+","1">>,
      <<"1","0","/","4">>, <<"2","*","*","3">>, <<"x","+","1">>, <<>>,
      <<"(","1","+","2">>, <<"1","2","*","1","2">>,
      <<"4",".","2">>, <<"(","7",")">>, <<" ","4","2"," ">>, <<"7">>, <<"1","/","(","2","-","2",")">> }

MathInputs == {<<a, op, b>> : a \in DigitChars, op \in MATH_OPS, b \in DigitChars}
              \cup MathExtras

T_paris_dot == <<"p","a","r","i","s",".">>

T_London == <<"L","o","n","d","o","n">>

T_PARIS_sp == <<" ","P","A","R","I","S">>

T_ticks == <<BACKTICK, BACKTICK>>

\* what the candidates of a vote are drawn from
T_A == <<"A">>

T_AB == <<"A","B">>

T_ABC == <<"A","B","C">>

VoteTexts == {T_Paris, T_paris_dot, T_London, T_PARIS_sp, T_ticks, T_A, T_AB, T_ABC}

\* longest list of candidates drawn
MaxCands == 3

VoteInputs == UNION {[1..n -> VoteTexts] : n \in 0..MaxCands}

\* the request machine at rest while a pure function is applied
AtRest ==
    /\ MEMORY = <<>>
    /\ accepted = <<>>
    /\ env = [keys |-> {}, order |-> <<>>]
    /\ prev = NoPrev
    /\ IdleRequest

InitMath ==
    /\ AtRest
    /\ fn = "math_try"
    /\ arg \in MathInputs
    /\ ret = <<>>

\* ret = _math_try(arg)
CallMathTry ==
    /\ fn = "math_try"
    /\ ret' = math_try(arg)
    /\ fn' = "math_try_done"
    /\ UNCHANGED <<MEMORY, accepted, env, prev, pc, locals, nreq, nother, arg>>

NextMath == CallMathTry

SpecMath == InitMath /\ [][NextMath]_vars

InitVote ==
    /\ AtRest
    /\ fn = "vote_select"
    /\ arg \in VoteInputs
    /\ ret = <<>>

\* ret = _vote_select(arg)
CallVoteSelect ==
    /\ fn = "vote_select"
    /\ ret' = vote_select(arg)
    /\ fn' = "vote_select_done"
    /\ UNCHANGED <<MEMORY, accepted, env, prev, pc, locals, nreq, nother, arg>>

NextVote == CallVoteSelect

SpecVote == InitVote /\ [][NextVote]_vars

(***************************************************************************)
(* memory_add called over and over on an empty memory.                     *)
(***************************************************************************)
\* calls of memory_add in one behaviour
MaxAdds == 52

\* the arguments of the next call: a fresh question and answer, or empty ones
NextQuestions == {<<>>, <<"q">> \o nat_str(Len(accepted) + 1)}

NextAnswers == {<<>>, <<"a">> \o nat_str(Len(accepted) + 1)}

InitMemory ==
    /\ AtRest
    /\ fn = "memory_add"
    /\ arg = <<>>
    /\ ret = 0

\* memory_add(question, a); ret counts the calls
CallMemoryAdd ==
    /\ fn = "memory_add"
    /\ ret < MaxAdds
    /\ \E question \in NextQuestions, a \in NextAnswers :
        /\ MEMORY' = memory_add(MEMORY, question, a)
        /\ accepted' = IF question # <<>> /\ a # <<>>
                       THEN Append(accepted, <<question, a>>) ELSE accepted
        /\ arg' = <<question, a>>
    /\ ret' = ret + 1
    /\ UNCHANGED <<env, prev, pc, locals, nreq, nother, fn>>

NextMemory == CallMemoryAdd

SpecMemory == InitMemory /\ [][NextMemory]_vars

(***************************************************************************)
(* The provider adapters: one call, by the outcome of its network request. *)
(***************************************************************************)
\* results of an adapter: text, None, or an exception leaving it
AdapterText(t) == [kind |-> "text", text |-> t]

AdapterNone == [kind |-> "absent", text |-> <<>>]

AdapterRaised == [kind |-> "raised", text |-> <<>>]

\* r.json()["choices"][0]["message"]["content"] inside try / except Exception
content_of(body) ==
    CASE body.kind = "malformed" -> AdapterNone
      [] body.kind = "wrong_shape" -> AdapterNone
      [] body.kind = "null" -> AdapterNone
      [] body.kind = "content" -> AdapterText(body.text)

\* orchestrator._openai_chat: requests.post stands before the try
openai_chat(key, net) ==
    IF ~key THEN AdapterNone
    ELSE IF net.kind = "error" THEN AdapterRaised
    ELSE IF net.status >= 400 THEN AdapterNone
    ELSE content_of(net.body)

\* providers._openai_chat: the same steps with its own settings
providers_openai_chat(key, net) ==
    IF ~key THEN AdapterNone
    ELSE IF net.kind = "error" THEN AdapterRaised
    ELSE IF net.status >= 400 THEN AdapterNone
    ELSE content_of(net.body)

\* llm_clients.ask_openai: the SDK call and the reading of its response are
\* inside the try; the SDK raises on a transport error, on a status that is not
\* a success, and on a body it cannot decode
ask_openai(key, sdk, net) ==
    IF ~key \/ ~sdk THEN AdapterNone
    ELSE IF net.kind = "error" THEN AdapterNone
    ELSE IF net.status < 200 \/ net.status >= 300 THEN AdapterNone
    ELSE CASE net.body.kind = "malformed" -> AdapterNone
           [] net.body.kind = "wrong_shape" -> AdapterNone
           [] net.body.kind = "null" -> AdapterText(<<>>)
           [] net.body.kind = "content" -> AdapterText(strip(net.body.text))

Adapters == {"orchestrator._openai_chat", "providers._openai_chat", "llm_clients.ask_openai"}

Statuses == {200, 302, 404, 500}

Bodies == {[kind |-> "malformed", text |-> <<>>], [kind |-> "wrong_shape", text |-> <<>>],
           [kind |-> "null", text |-> <<>>], [kind |-> "content", text |-> <<>>],
           [kind |-> "content", text |-> T_Paris]}

NoBody == [kind |-> "none", text |-> <<>>]

\* what the network request does: a transport error or timeout, or a response
NetOutcomes ==
    {[kind |-> "error", error |-> e, status |-> 0, body |-> NoBody] : e \in {"transport", "timeout"}}
    \cup {[kind |-> "http", error |-> "", status |-> st, body |-> b] : st \in Statuses, b \in Bodies}

AdapterInputs == [adapter : Adapters, key : BOOLEAN, sdk : BOOLEAN, net : NetOutcomes]

adapter_call(a) ==
    CASE a.adapter = "orchestrator._openai_chat" -> openai_chat(a.key, a.net)
      [] a.adapter = "providers._openai_chat" -> providers_openai_chat(a.key, a.net)
      [] a.adapter = "llm_clients.ask_openai" -> ask_openai(a.key, a.sdk, a.net)

InitAdapter ==
    /\ AtRest
    /\ fn = "adapter"
    /\ arg \in AdapterInputs
    /\ ret = <<>>

\* ret = the adapter's result for the outcome arg.net
CallAdapter ==
    /\ fn = "adapter"
    /\ ret' = adapter_call(arg)
    /\ fn' = "adapter_done"
    /\ UNCHANGED <<MEMORY, accepted, env, prev, pc, locals, nreq, nother, arg>>

NextAdapter == CallAdapter

SpecAdapter == InitAdapter /\ [][NextAdapter]_vars

(***************************************************************************)
(* The choice of providers: _provider_order and _active_providers.         *)
(***************************************************************************)
\* PROVIDER_ORDER values drawn: unset, unknown names only, a repeated name
OrderInputs == OrderEnvs \cup {<<"bogus">>, <<"cohere", "openai", "cohere">>, <<"mistral">>}

KeyInputs == SUBSET {"openai", "google", "mistral", "cohere"}

ChoiceInputs == [force : Forces, order : OrderInputs, keys : KeyInputs]

InitChoice ==
    /\ AtRest
    /\ fn = "provider_order"
    /\ arg \in ChoiceInputs
    /\ ret = <<>>

\* order = _provider_order(force_provider); active = _active_providers(order)
CallProviderOrder ==
    /\ fn = "provider_order"
    /\ LET order == provider_order(arg.force, arg.order)
       IN  ret' = [order |-> order, active |-> active_providers(order, arg.keys)]
    /\ fn' = "provider_order_done"
    /\ UNCHANGED <<MEMORY, accepted, env, prev, pc, locals, nreq, nother, arg>>

NextChoice == CallProviderOrder

SpecChoice == InitChoice /\ [][NextChoice]_vars

(***************************************************************************)
(* brain/creative.py: novelty_score over a pool of candidates.  A Python   *)
(* string is an object: [id, s] is the object id and its characters, since *)
(* novelty_score skips the entries of the corpus that are the very object  *)
(* it scores ("other is text").  A score is the fraction num/den.          *)
(***************************************************************************)
\* str.split(): the maximal runs of non-blank characters
RECURSIVE split(_)
split(s) ==
    LET t == lstrip(s)
        n == IF \E i \in DOMAIN t : t[i] \in WS
             THEN (CHOOSE i \in DOMAIN t : t[i] \in WS /\ \A j \in 1..(i - 1) : t[j] \notin WS) - 1
             ELSE Len(t)
    IN  IF t = <<>> THEN <<>>
        ELSE <<SubSeq(t, 1, n)>> \o split(SubSeq(t, n + 1, Len(t)))

\* _shingles(text, k): the k-token windows in order (a window is kept as its
\* sequence of tokens, which the code joins with single spaces)
shingles(text, k) ==
    LET toks == split(lower(strip(collapse_ws(text))))
    IN  [i \in 1..(IF Len(toks) - k + 1 > 0 THEN Len(toks) - k + 1 ELSE 0) |->
            SubSeq(toks, i, i + k - 1)]

\* Counter lookup: how often the window g occurs
gram_count(grams, g) == Cardinality({i \in DOMAIN grams : grams[i] = g})

\* sum(f[x] for x in S)
RECURSIVE sum_of(_, _)
sum_of(f, S) ==
    IF S = {} THEN 0
    ELSE LET x == CHOOSE y \in S : TRUE IN f[x] + sum_of(f, S \ {x})

\* sum(min(s[g], ss[g]) for g in s.keys() if g in ss)
common_grams(s, ss) ==
    LET shared == Range(s) \cap Range(ss)
        least  == [g \in shared |->
                     IF gram_count(s, g) < gram_count(ss, g)
                     THEN gram_count(s, g) ELSE gram_count(ss, g)]
    IN  sum_of(least, shared)

SCORE_ZERO == [num |-> 0, den |-> 1]

\* novelty_score(text, corpus) = 1.0 / (1.0 + overlap / total)
novelty_score(text, corpus) ==
    IF text.s = <<>> THEN SCORE_ZERO
    ELSE CHOOSE r \in
           {IF s = <<>> THEN SCORE_ZERO
            ELSE LET total == Len(s)
                     per   == [j \in DOMAIN corpus |->
                                 IF corpus[j].s = <<>> \/ corpus[j].id = text.id
                                 THEN 0
                                 ELSE CHOOSE n \in {common_grams(s, ss) :
                                          ss \in {shingles(corpus[j].s, 4)}} : TRUE]
                 IN  [num |-> total, den |-> total + sum_of(per, DOMAIN corpus)] :
            s \in {shingles(text.s, 4)}} : TRUE

N_abcd == <<"a"," ","b"," ","c"," ","d">>

N_ABCD == <<"A"," ","b"," "," ","c"," ","d">>

N_abcde == <<"a"," ","b"," ","c"," ","d"," ","e">>

N_wxyz == <<"w"," ","x"," ","y"," ","z">>

N_short == <<"h","i"," ","y","o">>

NoveltyTexts == {N_abcd, N_ABCD, N_abcde, N_wxyz, N_short, <<>>}

\* candidates in a pool at most
MaxPool == 3

\* the pools: equal objects hold equal characters; object ids are numbered in
\* order of first appearance
PoolInputs ==
    UNION {{pool \in [1..n -> [id : 1..n, s : NoveltyTexts]] :
               /\ \A i, j \in 1..n : pool[i].id = pool[j].id => pool[i].s = pool[j].s
               /\ \A i \in 1..n : pool[i].id <= i
               /\ \A i \in 1..n : pool[i].id = i \/ \E j \in 1..(i - 1) : pool[j].id = pool[i].id}
           : n \in 1..MaxPool}

InitNovelty ==
    /\ AtRest
    /\ fn = "novelty_score"
    /\ arg \in PoolInputs
    /\ ret = <<>>

\* ret[i] = novelty_score(c, candidates) for the i-th candidate c, as in the
\* scoring loop of imagine
CallNoveltyScore ==
    /\ fn = "novelty_score"
    /\ ret' = [i \in DOMAIN arg |-> novelty_score(arg[i], arg)]
    /\ fn' = "novelty_score_done"
    /\ UNCHANGED <<MEMORY, accepted, env, prev, pc, locals, nreq, nother, arg>>

NextNovelty == CallNoveltyScore

SpecNovelty == InitNovelty /\ [][NextNovelty]_vars

(***************************************************************************)
(* brain/creative.py: _refine(draft, critique).                            *)
(***************************************************************************)
\* the em dash (U+2014) of the addendum heading
EMDASH == "EMDASH"

\* the characters of the class [:\n]
HEAD_END == {":", "\n"}

in_head_end(s, i) == i <= Len(s) /\ s[i] \in HEAD_END

\* the pattern improved(?: answer| version)?[:\n]+ tried at position i of the
\* critique, letter case ignored: the position of the first character of the
\* run [:\n]+, or 0 when it does not match there
heading_at(critique, i) ==
    LET cl == lower(critique)
    IN  IF ~startswith_at(cl, i, <<"i","m","p","r","o","v","e","d">>) THEN 0
        ELSE IF startswith_at(cl, i + 8, <<" ","a","n","s","w","e","r">>) /\ in_head_end(cl, i + 15)
        THEN i + 15
        ELSE IF startswith_at(cl, i + 8, <<" ","v","e","r","s","i","o","n">>) /\ in_head_end(cl, i + 16)
        THEN i + 16
        ELSE IF in_head_end(cl, i + 8) THEN i + 8
        ELSE 0

\* the end of the greedy run [:\n]+ that starts at position i
RECURSIVE run_end(_, _)
run_end(s, i) == IF in_head_end(s, i + 1) THEN run_end(s, i + 1) ELSE i

\* re.search(...): matched tells whether the pattern matches somewhere, and
\* group2 is (.*)$ under re.S at the leftmost match, the rest of the critique
improved_search(critique) ==
    IF \E i \in DOMAIN critique : heading_at(critique, i) > 0
    THEN LET i == CHOOSE k \in DOMAIN critique :
                      /\ heading_at(critique, k) > 0
                      /\ \A j \in 1..(k - 1) : heading_at(critique, j) = 0
             e == run_end(critique, heading_at(critique, i))
         IN  [matched |-> TRUE, group2 |-> SubSeq(critique, e + 1, Len(critique))]
    ELSE [matched |-> FALSE, group2 |-> <<>>]

\* "\n\n(em dash) Improvements (em dash)\n"
ADDENDUM == <<"\n","\n","EMDASH"," ","I","m","p","r","o","v","e","m","e","n","t","s"," ","EMDASH","\n">>

\* variant: the improved section is returned even when it is empty
refine_unguarded(draft, critique) ==
    LET m == improved_search(critique)
    IN  IF m.matched THEN strip(m.group2) ELSE draft \o ADDENDUM \o critique

\* _refine(draft, critique)
refine(draft, critique) ==
    LET m == improved_search(critique)
    IN  IF m.matched
        THEN LET improved == strip(m.group2)
             IN  IF Len(improved) > 0 THEN improved ELSE draft
        ELSE draft \o ADDENDUM \o critique

P_Improved == <<"I","m","p","r","o","v","e","d">>

P_version == <<" ","v","e","r","s","i","o","n">>

P_answer == <<" ","a","n","s","w","e","r">>

P_fix == <<"f","i","x"," ","i","t">>

CritiquePieces == {P_Improved, P_version, P_answer, P_fix, <<":">>, <<"\n">>, <<" ">>}

\* pieces in a critique at most
MaxPieces == 4

RECURSIVE concat(_)
concat(ps) == IF ps = <<>> THEN <<>> ELSE Head(ps) \o concat(Tail(ps))

\* the critiques: every run of one to MaxPieces pieces
Critiques == {concat(ps) : ps \in UNION {[1..n -> CritiquePieces] : n \in 1..MaxPieces}}

Drafts == {<<"D">>, <<"o","k","."," ">>}

RefineInputs == [draft : Drafts, critique : Critiques]

InitRefine ==
    /\ AtRest
    /\ fn = "refine"
    /\ arg \in RefineInputs
    /\ ret = <<>>

\* ret = _refine(draft, critique)
CallRefine ==
    /\ fn = "refine"
    /\ ret' = refine(arg.draft, arg.critique)
    /\ fn' = "refine_done"
    /\ UNCHANGED <<MEMORY, accepted, env, prev, pc, locals, nreq, nother, arg>>

NextRefine == CallRefine

SpecRefine == InitRefine /\ [][NextRefine]_vars

(***************************************************************************)
(* brain/creative.py: imagine(prompt, n_seeds, max_time_s), one step per   *)
(* stage.  fn is the position in imagine, arg its inputs and ret its       *)
(* locals.  Time is in whole seconds since t0, as time.time() reports it.  *)
(* fanout_creative_sample is imported from brain/providers.py, which does  *)
(* not define it: its result is any list of texts, after any delay.        *)
(***************************************************************************)
\* len(re.split(r"[.!?]\s+", c)): one more than the matches of the separator
sentence_count(c) ==
    1 + Cardinality({i \in 1..(Len(c) - 1) : c[i] \in {".", "!", "?"} /\ c[i + 1] \in WS})

\* the end of the run of characters of the set cls that starts at i (i - 1
\* when c[i] is not in cls)
RECURSIVE class_run_end(_, _, _)
class_run_end(c, i, cls) ==
    IF i <= Len(c) /\ c[i] \in cls THEN class_run_end(c, i + 1, cls) ELSE i - 1

\* re.search(r"^#+\s|^[-*]\s|```|^\d+\.", c, re.M) finds something
has_struct(c) ==
    \/ \E i \in DOMAIN c : startswith_at(c, i, <<BACKTICK, BACKTICK, BACKTICK>>)
    \/ \E i \in DOMAIN c :
          /\ i = 1 \/ c[i - 1] = "\n"
          /\ \/ LET e == class_run_end(c, i, {"#"}) IN e >= i /\ e < Len(c) /\ c[e + 1] \in WS
             \/ c[i] \in {"-", "*"} /\ i < Len(c) /\ c[i + 1] \in WS
             \/ LET e == class_run_end(c, i, Range(DIGITS))
                IN  e >= i /\ e < Len(c) /\ c[e + 1] = "."

\* score = 0.55*nov + 0.25*min(len(c)/600, 1) + 0.20*(sent/12) + 0.15*has_struct
\* as the exact fraction num/den, over the common denominator 2400
score_of(c, candidates) ==
    LET len  == IF Len(c.s) < 600 THEN Len(c.s) ELSE 600
        sent == sentence_count(c.s)
        hs   == IF has_struct(c.s) THEN 1 ELSE 0
    IN  CHOOSE r \in {[num |-> 1320 * nov.num + nov.den * (len + 40 * sent + 360 * hs),
                       den |-> 2400 * nov.den] :
                      nov \in {novelty_score(c, candidates)}} : TRUE

\* variant: no sort, every item keeps its place
rank_places_unsorted(sc) == [i \in DOMAIN sc |-> i]

\* the place of each item in sorted(..., reverse=True) by the scores sc; the
\* sort is stable: item i comes after the items of a higher score and the
\* earlier items of the same score
rank_places(sc) ==
    [i \in DOMAIN sc |->
        1 + Cardinality({j \in DOMAIN sc :
                \/ sc[i].num * sc[j].den < sc[j].num * sc[i].den
                \/ sc[i].num * sc[j].den = sc[j].num * sc[i].den /\ j < i})]

\* scored, the (score, candidate) pairs, after
\* scored.sort(key=lambda x: x[0], reverse=True)
ranked(candidates) ==
    CHOOSE r \in UNION {{[k \in DOMAIN candidates |->
                            [score |-> sc[CHOOSE i \in DOMAIN candidates : place[i] = k],
                             c     |-> candidates[CHOOSE i \in DOMAIN candidates : place[i] = k]]] :
                         place \in {rank_places(sc)}} :
                     sc \in {[i \in DOMAIN candidates |->
                                 score_of(candidates[i], candidates)]}} : TRUE

NO_MODELS == <<"I"," ","h","a","v","e"," ","a","n"," ","i","d","e","a",","," ","b","u","t"," ","n","o"," ","m","o","d","e","l","s"," ","r","e","p","l","i","e","d",".">>

\* variant: the critic runs whenever the budget is not yet spent
time_allows_no_margin(elapsed, max_time_s) == elapsed < max_time_s

\* time.time() - t0 < max_time_s - 3.0
time_allows(elapsed, max_time_s) == elapsed < max_time_s - 3

I_head == <<"#"," ","w"," ","x"," ","y"," ","z">>

I_two == <<"H","i","."," ","a"," ","b"," ","c"," ","d"," ">>

ImagineTexts == {N_abcd, N_wxyz, I_head}

\* candidates the sampling returns at most
MaxSamples == 5

\* seconds a call or the scoring takes at most
MaxDelay == 2

Delays == 0..MaxDelay

Budgets == {2, 4, 5}

SeedCounts == {1, 5, 9}

\* what the sampling may return: fresh string objects, numbered in order
SamplePools ==
    UNION {{[i \in 1..n |-> [id |-> i, s |-> f[i]]] : f \in [1..n -> ImagineTexts]}
           : n \in 0..MaxSamples}

\* what the critic may say, before _critique strips it
CriticTexts == {<<>>, <<" ">>, P_fix, P_Improved \o <<":">>, P_Improved \o <<":">> \o P_fix}

ImagineLocals ==
    [seeds |-> 0, candidates |-> <<>>, elapsed |-> 0, sampled |-> 0, checked |-> 0,
     fallbacks |-> 0, critics |-> 0, scored |-> <<>>, best |-> <<>>,
     final |-> <<>>, alternates |-> <<>>, count |-> 0]

InitImagine ==
    /\ AtRest
    /\ fn = "imagine"
    /\ arg \in [n_seeds : SeedCounts, max_time_s : Budgets]
    /\ ret = ImagineLocals

ImagineFrame == UNCHANGED <<MEMORY, accepted, env, prev, pc, locals, nreq, nother, arg>>

\* 1) seeds = max(3, min(n_seeds, 8)); candidates = fanout_creative_sample(...)
ImagineSample ==
    /\ fn = "imagine"
    /\ \E c \in SamplePools, dt \in Delays :
        /\ ret' = [ret EXCEPT
                     !.seeds = IF arg.n_seeds < 3 THEN 3
                               ELSE IF arg.n_seeds > 8 THEN 8 ELSE arg.n_seeds,
                     !.candidates = c,
                     !.elapsed = @ + dt,
                     !.sampled = ret.elapsed + dt]
        /\ fn' = IF c = <<>> THEN "imagine_fallback" ELSE "imagine_rank"
    /\ ImagineFrame

\* no candidate: base = ensemble_chat(prompt, ...); candidates = [base] if base
ImagineFallback ==
    /\ fn = "imagine_fallback"
    /\ \E base \in ImagineTexts \cup {I_two, <<>>}, dt \in Delays :
        ret' = [ret EXCEPT
                  !.candidates = IF base # <<>> THEN <<[id |-> 1, s |-> base]>> ELSE <<>>,
                  !.fallbacks = @ + 1,
                  !.elapsed = @ + dt,
                  !.sampled = ret.elapsed + dt]
    /\ fn' = "imagine_rank"
    /\ ImagineFrame

\* 2) score and rank, pick best, then read the clock for step 3
ImagineRank ==
    /\ fn = "imagine_rank"
    /\ \E scored \in {ranked(ret.candidates)}, dt \in Delays :
        /\ ret' = [ret EXCEPT
                     !.scored = scored,
                     !.best = IF scored # <<>> THEN scored[1].c.s ELSE NO_MODELS,
                     !.elapsed = @ + dt,
                     !.checked = ret.elapsed + dt]
        /\ fn' = IF time_allows(ret.elapsed + dt, arg.max_time_s)
                 THEN "imagine_critique" ELSE "imagine_return"
    /\ ImagineFrame

\* 3) critique = _critique(prompt, best); if critique: best = _refine(best, critique)
\* (the clock is not read again, so the time the critic takes is left out)
ImagineCritique ==
    /\ fn = "imagine_critique"
    /\ \E said \in CriticTexts :
        LET critique == strip(said)
        IN  ret' = [ret EXCEPT
                      !.critics = @ + 1,
                      !.best = IF critique # <<>> THEN refine(ret.best, critique) ELSE @]
    /\ fn' = "imagine_return"
    /\ ImagineFrame

\* 4) return final, alternates (ranks 2 to 4) and count
ImagineReturn ==
    /\ fn = "imagine_return"
    /\ ret' = [ret EXCEPT
                 !.final = strip(ret.best),
                 !.alternates = [k \in 1..((IF Len(ret.scored) < 4 THEN Len(ret.scored) ELSE 4) - 1)
                                    |-> ret.scored[k + 1].c.s],
                 !.count = Len(ret.candidates)]
    /\ fn' = "imagine_done"
    /\ ImagineFrame

NextImagine ==
    \/ ImagineSample
    \/ ImagineFallback
    \/ ImagineRank
    \/ ImagineCritique
    \/ ImagineReturn

SpecImagine == InitImagine /\ [][NextImagine]_vars

(***************************************************************************)
(* apps/api/main.py: api_imagine(p), the POST /api/imagine handler: one    *)
(* step for the checks, one per ensemble_chat call of the loop, one for    *)
(* the return.  fn is the position, arg the payload and ret the locals.    *)
(***************************************************************************)
SPECULATIVE == <<"A"," ","s","p","e","c","u","l","a","t","i","v","e"," ","c","o","n","c","e","p","t"," ","c","o","u","l","d"," ","c","o","m","b","i","n","e"," ","n","e","w"," ","m","a","t","e","r","i","a","l","s",","," ","r","e","s","p","o","n","s","i","v","e"," ","i","n","t","e","r","f","a","c","e","s",","," ","a","n","d"," ","a","d","a","p","t","i","v","e"," ","b","e","h","a","v","i","o","r",".">>

GAME_BUILT == <<"I"," ","b","u","i","l","t"," ","a"," ","t","i","n","y"," ","H","T","M","L","5"," ","g","a","m","e"," ","(","e","n","d","l","e","s","s"," ","r","u","n","n","e","r",")","."," ","U","n","z","i","p"," ","a","n","d"," ","o","p","e","n"," ","*","*","i","n","d","e","x",".","h","t","m","l","*","*",".">>

\* range(max(1, min(8, p.n_seeds))): the number of ensemble_chat calls
api_seed_count(n_seeds) ==
    LET m == IF n_seeds < 8 THEN n_seeds ELSE 8
    IN  IF m > 1 THEN m ELSE 1

A_game == <<"a"," ","G","a","m","e">>

A_idea == <<"i","d","e","a">>

ApiPrompts == {<<>>, <<" ">>, A_game, A_idea}

ApiSeedCounts == {-1, 1, 2, 3, 5, 9}

\* what one ensemble_chat call may return
ApiReplies == {<<>>, <<" ">>, <<"A">>}

ApiImagineLocals ==
    [status |-> 0, requested |-> 0, seeds |-> <<>>, final |-> <<>>,
     alternates |-> <<>>, zip |-> FALSE]

InitApiImagine ==
    /\ AtRest
    /\ fn = "api_imagine"
    /\ arg \in [prompt : ApiPrompts, n_seeds : ApiSeedCounts]
    /\ ret = ApiImagineLocals

\* q = (p.prompt or "").strip(); 400 when blank; the game branch; else the loop
ApiImagineCheck ==
    /\ fn = "api_imagine"
    /\ LET prompt == strip(arg.prompt)
       IN  IF prompt = <<>>
           THEN /\ ret' = [ret EXCEPT !.status = 400]
                /\ fn' = "api_imagine_done"
           ELSE IF contains(lower(prompt), <<"g","a","m","e">>)
           THEN /\ ret' = [ret EXCEPT !.status = 200, !.final = GAME_BUILT, !.zip = TRUE]
                /\ fn' = "api_imagine_done"
           ELSE /\ ret' = [ret EXCEPT !.requested = api_seed_count(arg.n_seeds)]
                /\ fn' = "api_imagine_loop"
    /\ ImagineFrame

\* seeds.append(ensemble_chat(q, system=system) or "")
ApiImagineSample ==
    /\ fn = "api_imagine_loop"
    /\ Len(ret.seeds) < ret.requested
    /\ \E reply \in ApiReplies : ret' = [ret EXCEPT !.seeds = Append(@, reply)]
    /\ UNCHANGED fn
    /\ ImagineFrame

\* drop the blank seeds, default text when none is left, final and alternates
ApiImagineReturn ==
    /\ fn = "api_imagine_loop"
    /\ Len(ret.seeds) = ret.requested
    /\ LET kept  == SelectSeq(ret.seeds, LAMBDA x : strip(x) # <<>>)
           seeds == IF kept = <<>> THEN <<SPECULATIVE>> ELSE kept
       IN  ret' = [ret EXCEPT !.status = 200,
                              !.final = seeds[1],
                              !.alternates = SubSeq(seeds, 2, Len(seeds))]
    /\ fn' = "api_imagine_done"
    /\ ImagineFrame

NextApiImagine ==
    \/ ApiImagineCheck
    \/ ApiImagineSample
    \/ ApiImagineReturn

SpecApiImagine == InitApiImagine /\ [][NextApiImagine]_vars

(***************************************************************************)
(* brain/providers.py: ensemble_chat(prompt, system), one step per turn of *)
(* its loop.  arg is PROVIDER_ORDER, ret the position in the loop, the     *)
(* calls made so far with what each gave, and the result.                  *)
(***************************************************************************)
\* what a provider function may do: return None, raise, or return a text
ChatOutcomes ==
    [kind : {"text"}, text : {<<>>, <<" ">>, <<" ","A"," ">>, <<"B">>}]
    \cup {[kind |-> "none", text |-> <<>>], [kind |-> "raise", text |-> <<>>]}

\* variant: no try/except around the call, and the text as the provider gave it
ensemble_out_bare(o) ==
    [exc |-> o.kind = "raise", out |-> IF o.kind = "text" THEN o.text ELSE <<>>]

\* try: out = _strip(fn(prompt, system)); except Exception: out = ""
ensemble_out(o) ==
    [exc |-> FALSE, out |-> IF o.kind = "text" THEN strip(o.text) ELSE <<>>]

EnsembleLocals == [i |-> 1, seen |-> <<>>, result |-> <<>>, raised |-> FALSE]

InitEnsemble ==
    /\ AtRest
    /\ fn = "ensemble_chat"
    /\ arg \in [order : OrderInputs]
    /\ ret = EnsembleLocals

\* for name in _order(): call it; if out: return out
EnsembleTurn ==
    /\ fn = "ensemble_chat"
    /\ ret.i <= Len(chat_order(arg.order))
    /\ \E o \in ChatOutcomes, name \in {chat_order(arg.order)[ret.i]} :
         \E r \in {ensemble_out(o)} :
            /\ ret' = [ret EXCEPT !.i = @ + 1,
                                  !.seen = Append(@, [name |-> name, o |-> o]),
                                  !.result = r.out,
                                  !.raised = r.exc]
            /\ fn' = IF r.exc \/ r.out # <<>> THEN "ensemble_chat_done" ELSE fn
    /\ ImagineFrame

\* the loop is over: return ""
EnsembleEnd ==
    /\ fn = "ensemble_chat"
    /\ ret.i > Len(chat_order(arg.order))
    /\ ret' = [ret EXCEPT !.result = <<>>]
    /\ fn' = "ensemble_chat_done"
    /\ ImagineFrame

NextEnsemble ==
    \/ EnsembleTurn
    \/ EnsembleEnd

SpecEnsemble == InitEnsemble /\ [][NextEnsemble]_vars

(***************************************************************************)
(* brain/memory.py: the conversation store.  A database db has the rows of *)
(* sessions, messages (in id order) and summaries, and the AUTOINCREMENT   *)
(* counter seq; every function runs as one transaction.  fn = "store", arg *)
(* is the last call and ret the database, the clock and the call count.    *)
(***************************************************************************)
\* values of uuid.uuid4(), in the order they are drawn
UUIDS == <<"u1", "u2", "u3", "u4", "u5">>

\* ensure_session(session_id) at time now; session_id "" stands for None too
ensure_session(db, session_id, now) ==
    LET sid == IF session_id # "" THEN session_id ELSE UUIDS[db.uuids + 1]
        row == {r \in db.sessions : r.id = sid}
    IN  [db EXCEPT
           !.uuids = IF session_id # "" THEN @ ELSE @ + 1,
           !.sessions =
               IF row = {}
               THEN @ \cup {[id |-> sid, title |-> "", created_at |-> now, updated_at |-> now]}
               ELSE {IF r.id = sid THEN [r EXCEPT !.updated_at = now] ELSE r : r \in @}]

\* append_message(session_id, role, content) at time now
append_message(db, session_id, role, content, now) ==
    [db EXCEPT
       !.seq = @ + 1,
       !.messages = Append(@, [id |-> db.seq + 1, session_id |-> session_id, role |-> role,
                               content |-> content, created_at |-> now]),
       !.sessions = {IF r.id = session_id THEN [r EXCEPT !.updated_at = now] ELSE r : r \in @}]

\* fetch_recent_context(session_id, k): the last k rows of the session, oldest first
fetch_recent_context(db, session_id, k) ==
    LET rows == SelectSeq(db.messages, LAMBDA m : m.session_id = session_id)
        from == IF Len(rows) > k THEN Len(rows) - k + 1 ELSE 1
    IN  [i \in 1..(Len(rows) - from + 1) |->
            <<rows[from + i - 1].role, rows[from + i - 1].content>>]

\* save_summary(session_id, rolling_summary, progress) at time now
save_summary(db, session_id, rolling_summary, now) ==
    [db EXCEPT
       !.summaries = {r \in @ : r.session_id # session_id}
                     \cup {[session_id |-> session_id, rolling_summary |-> rolling_summary,
                            last_checkpoint |-> now]}]

\* variant: DELETE without the WHERE clause
wipe_session_all(db, session_id, now) ==
    [db EXCEPT !.messages = <<>>, !.summaries = {}]

\* wipe_session(session_id) at time now
wipe_session(db, session_id, now) ==
    [db EXCEPT
       !.messages = SelectSeq(@, LAMBDA m : m.session_id # session_id),
       !.summaries = {r \in @ : r.session_id # session_id},
       !.sessions = {IF r.id = session_id THEN [r EXCEPT !.title = "", !.updated_at = now]
                     ELSE r : r \in @}]

\* calls after the initial state at most
MaxOps == 3

SessionIds == {"s1", "s2"}

Turns == {[role |-> "user", content |-> "x"], [role |-> "assistant", content |-> "y"],
          [role |-> "user", content |-> "y"]}

EmptyStore == [sessions |-> {}, messages |-> <<>>, summaries |-> {}, seq |-> 0, uuids |-> 0]

\* the store after ensure s1, ensure s2, three appends and a summary of s2
PopulatedStore ==
    save_summary(
      append_message(
        append_message(
          append_message(
            ensure_session(ensure_session(EmptyStore, "s1", 1), "s2", 2),
            "s1", "user", "x", 3),
          "s2", "user", "y", 4),
        "s1", "assistant", "y", 5),
      "s2", "sum", 6)

InitStore ==
    /\ AtRest
    /\ fn = "store"
    /\ arg = [op |-> "none", sid |-> ""]
    /\ ret \in {[db |-> EmptyStore, now |-> 1, n |-> 0],
                [db |-> PopulatedStore, now |-> 7, n |-> 0]}

\* the call op(sid, ...) turned the database into db
StoreStep(op, sid, db) ==
    /\ ret' = [db |-> db, now |-> ret.now + 1, n |-> ret.n + 1]
    /\ arg' = [op |-> op, sid |-> sid]
    /\ UNCHANGED <<MEMORY, accepted, env, prev, pc, locals, nreq, nother, fn>>

CallEnsureSession ==
    /\ fn = "store"
    /\ ret.n < MaxOps
    /\ \E sid \in SessionIds \cup {""} :
           StoreStep("ensure_session", sid, ensure_session(ret.db, sid, ret.now))

CallAppendMessage ==
    /\ fn = "store"
    /\ ret.n < MaxOps
    /\ \E sid \in SessionIds, t \in Turns :
           StoreStep("append_message", sid, append_message(ret.db, sid, t.role, t.content, ret.now))

CallSaveSummary ==
    /\ fn = "store"
    /\ ret.n < MaxOps
    /\ \E sid \in SessionIds :
           StoreStep("save_summary", sid, save_summary(ret.db, sid, "new", ret.now))

CallWipeSession ==
    /\ fn = "store"
    /\ ret.n < MaxOps
    /\ \E sid \in SessionIds :
           StoreStep("wipe_session", sid, wipe_session(ret.db, sid, ret.now))

NextStore ==
    \/ CallEnsureSession
    \/ CallAppendMessage
    \/ CallSaveSummary
    \/ CallWipeSession

SpecStore == InitStore /\ [][NextStore]_vars

(***************************************************************************)
(* app_multi.py: the chat store and api_chat, the POST /api/chat handler.  *)
(* The handler runs to its return in one step (it awaits nothing before);  *)
(* the generator gen() then takes one step per chunk and one for its end.  *)
(* arg is the payload; ret holds the database, the clock, the handler's    *)
(* locals and the chunks sent to the client.                               *)
(***************************************************************************)
HISTORY_LIMIT == 40

SYSTEM_PROMPT == <<"Y","o","u"," ","a","r","e"," ","D","e","v","F","o","r","g","e"," ","U","l","t","r","a",","," ","a"," ","h","e","l","p","f","u","l"," ","A","I"," ","a","s","s","i","s","t","a","n","t"," ","s","i","m","i","l","a","r"," ","t","o"," ","C","h","a","t","G","P","T","."," ","B","e"," ","c","o","n","c","i","s","e",","," ","f","r","i","e","n","d","l","y",","," ","a","n","d"," ","s","a","f","e","."," ","I","n","c","l","u","d","e"," ","c","o","d","e"," ","e","x","a","m","p","l","e","s"," ","w","h","e","n"," ","r","e","l","e","v","a","n","t",".">>

\* new_chat(user_id): a chats row under a fresh id
new_chat(db, user_id, now) ==
    [db EXCEPT !.chats = @ \cup {[chat_id |-> "new", user_id |-> user_id,
                                   created |-> now, updated |-> now]}]

\* append_msg(cid, role, content) at time now
append_msg(db, cid, role, content, now) ==
    [db EXCEPT
       !.seq = @ + 1,
       !.messages = Append(@, [id |-> db.seq + 1, chat_id |-> cid, role |-> role,
                               content |-> content, ts |-> now]),
       !.chats = {IF r.chat_id = cid THEN [r EXCEPT !.updated = now] ELSE r : r \in @}]

\* get_history(cid, limit): SELECT ... WHERE chat_id=? ORDER BY ts ASC LIMIT ?
\* (the rows are kept in ts order, which is their id order)
get_history(db, cid, limit) ==
    LET rows == SelectSeq(db.messages, LAMBDA m : m.chat_id = cid)
    IN  [i \in 1..(IF Len(rows) < limit THEN Len(rows) ELSE limit) |->
            [role |-> rows[i].role, content |-> rows[i].content]]

\* build_messages(history, msg)
build_messages(history, msg) ==
    <<[role |-> "system", content |-> SYSTEM_PROMPT]>>
    \o SubSeq(history, (IF Len(history) > HISTORY_LIMIT THEN Len(history) - HISTORY_LIMIT + 1 ELSE 1),
               Len(history))
    \o <<[role |-> "user", content |-> msg]>>

\* variant: the assistant message is stored whatever acc holds
gen_finally_always(db, cid, acc, now) == append_msg(db, cid, "assistant", concat(acc), now)

\* finally: if acc: append_msg(cid, "assistant", "".join(acc))
gen_finally(db, cid, acc, now) ==
    IF acc # <<>> THEN append_msg(db, cid, "assistant", concat(acc), now) ELSE db

\* chunks one response has at most
MaxChunks == 2

Chunks == {<<"a">>, <<"b","c">>}

\* message i of the stored chat: users and the assistant take turns
StoredRow(i, cid) ==
    [id |-> i, chat_id |-> cid, role |-> IF i % 2 = 1 THEN "user" ELSE "assistant",
     content |-> <<"h">> \o nat_str(i), ts |-> i]

\* a database where chat c1 holds n messages and chat c2 one
StoredChat(n) ==
    [chats |-> {[chat_id |-> "c1", user_id |-> "u", created |-> 0, updated |-> n],
                [chat_id |-> "c2", user_id |-> "u", created |-> 0, updated |-> n + 1]},
     messages |-> [i \in 1..(n + 1) |-> IF i <= n THEN StoredRow(i, "c1") ELSE StoredRow(i, "c2")],
     seq |-> n + 1]

\* how many messages the chat holds when the request arrives
StoredCounts == {0, 1, HISTORY_LIMIT, HISTORY_LIMIT + 1}

ChatPayloads ==
    [user_id : {"", "u"}, message : {<<>>, <<"m">>}, chat_id : {"", "c1", "c2"}]

ApiChatLocals(n) ==
    [db |-> StoredChat(n), now |-> n + 2, stored |-> n + 1, status |-> 0, cid |-> "",
     hist |-> <<>>, messages |-> <<>>, acc |-> <<>>, sent |-> <<>>, ended |-> ""]

InitApiChat ==
    /\ AtRest
    /\ fn = "api_chat"
    /\ arg \in ChatPayloads
    /\ ret \in {ApiChatLocals(n) : n \in StoredCounts}

\* api_chat up to its return: the checks, new_chat, get_history,
\* build_messages and the user message
ApiChatStart ==
    /\ fn = "api_chat"
    /\ IF arg.user_id = "" \/ arg.message = <<>>
       THEN /\ ret' = [ret EXCEPT !.status = 400]
            /\ fn' = "api_chat_done"
       ELSE \E cid \in {IF arg.chat_id = "" THEN "new" ELSE arg.chat_id} :
            \E db \in {IF arg.chat_id = "" THEN new_chat(ret.db, arg.user_id, ret.now) ELSE ret.db} :
            \E hist \in {get_history(db, cid, HISTORY_LIMIT)} :
                /\ ret' = [ret EXCEPT
                             !.status = 200,
                             !.cid = cid,
                             !.hist = hist,
                             !.messages = build_messages(hist, arg.message),
                             !.db = append_msg(db, cid, "user", arg.message, ret.now),
                             !.now = @ + 1]
                /\ fn' = "gen"
    /\ ImagineFrame

\* async for chunk in provider_stream(...): acc.append(chunk); yield the delta
GenChunk ==
    /\ fn = "gen"
    /\ Len(ret.acc) < MaxChunks
    /\ \E chunk \in Chunks :
         ret' = [ret EXCEPT !.acc = Append(@, chunk), !.sent = Append(@, chunk)]
    /\ UNCHANGED fn
    /\ ImagineFrame

\* the stream ends, the provider raises, or the client goes away and the
\* generator is closed: the finally block runs
GenEnd ==
    /\ fn = "gen"
    /\ \E how \in {"end", "error", "closed"} :
         ret' = [ret EXCEPT !.db = gen_finally(ret.db, ret.cid, ret.acc, ret.now),
                            !.now = @ + 1,
                            !.ended = how]
    /\ fn' = "api_chat_done"
    /\ ImagineFrame

NextApiChat ==
    \/ ApiChatStart
    \/ GenChunk
    \/ GenEnd

SpecApiChat == InitApiChat /\ [][NextApiChat]_vars

(***************************************************************************)
(* Properties.                                                             *)
(***************************************************************************)
IsPrefix(s, t) == Len(s) <= Len(t) /\ s = SubSeq(t, 1, Len(s))

StageOrder == <<"math", "facts", "memory", "providers">>

LocalLabels == {"local-math", "local-facts", "local-memory"}

LocalLabel(stage) ==
    CASE stage = "math" -> "local-math"
      [] stage = "facts" -> "local-facts"
      [] stage = "memory" -> "local-memory"
      [] OTHER -> "none"

\* answer_question has ended, by a return or by an exception
Answered == resp.kind # "none"

NoProviderCalled == \A p \in Providers : calls[p] = 0

int_str(n) == IF n < 0 THEN <<"-">> \o nat_str(-n) ELSE nat_str(n)

\* C1: the stages are entered in the order math, facts/capital, memory,
\* providers, each only after the earlier ones missed; a provider is called
\* only after all three local stages were entered; a request answered by a
\* local stage carries that stage's label, providers_used = [] and has called
\* no provider; a question the math stage matches is answered by it, and one
\* it misses but the fact stage matches is answered by the fact stage.
C1_StageOrder ==
    /\ IsPrefix(tried, StageOrder)
    /\ (\E p \in Providers : calls[p] > 0) => tried = StageOrder
    /\ (resp.kind = "response" /\ resp.provider \in LocalLabels) =>
          /\ resp.used = <<>>
          /\ NoProviderCalled
          /\ "providers" \notin Range(tried)
          /\ resp.provider = LocalLabel(tried[Len(tried)])
    /\ (Answered /\ math_try(lower(q)) # <<>>) =>
          /\ resp = Response(math_try(lower(q)), "local-math", <<>>, FALSE)
          /\ tried = <<"math">>
    /\ (Answered /\ math_try(lower(q)) = <<>> /\ facts_try(lower(q)) # <<>>) =>
          /\ resp = Response(facts_try(lower(q)), "local-facts", <<>>, FALSE)
          /\ tried = <<"math", "facts">>

\* C1 witness: a request answered by the third local stage after the first
\* two missed, with no provider called
C1_Witness ==
    /\ resp.kind = "response"
    /\ resp.provider = "local-memory"
    /\ tried = <<"math", "facts", "memory">>
    /\ NoProviderCalled

\* C2: for an allowed expression with an operator whose value is an integer,
\* _math_try returns that integer written without a fractional part
\* ("2+2" gives "4", "6/3" gives "2").
C2_MathFormatted ==
    (/\ fn = "math_try_done"
     /\ arg # <<>>
     /\ \A i \in 1..Len(arg) : arg[i] \in ALLOWED_MATH
     /\ has_operator(arg)
     /\ sympify(arg).k = "rat"
     /\ sympify(arg).d = 1)
    => ret = int_str(sympify(arg).n)

\* the providers of the configured preference order that hold a credential
FullEnsemble == active_providers(provider_order("", env.order), env.keys)

\* the forced provider was called alone and failed: the fan-out has started
ForcedFailed ==
    /\ req.force # ""
    /\ req.force \in Range(Active)
    /\ \E p \in Providers : fut[p] # "idle"

\* C3: once a forced, active provider has failed, every credentialed provider
\* of the configured preference order is called in the fan-out.
C3_ForcedFallsToFullEnsemble ==
    ForcedFailed => \A p \in Range(FullEnsemble) : fut[p] # "idle"

\* C4: once the provider stage is reached, answer_question ends with a
\* response object and never with an exception, whatever the providers do.
C4_NeverRaises ==
    "providers" \in Range(tried) => resp.kind # "raised"

\* C5: when the deadline of the fan-out has expired, answer_question has
\* returned, without waiting, the response built from the answers collected
\* before the deadline.
C5_DeadlineReturnsCollected ==
    expired =>
        /\ resp.kind = "response"
        /\ resp.used = used
        /\ answers # <<>> => resp.answer = vote_select(answers)
        /\ answers = <<>> => resp = SentinelResponse

\* C6: within one request no provider is invoked more than once.
C6_AtMostOnce == \A p \in Providers : calls[p] <= 1

\* the last n items of s
LastN(s, n) == IF Len(s) <= n THEN s ELSE SubSeq(s, Len(s) - n + 1, Len(s))

\* C7: in every state the memory holds at most its capacity, and it is
\* exactly the most recent pairs accepted, in the order they were accepted: no
\* accepted pair is missing except the oldest ones evicted by later appends,
\* whichever threads appended.
C7_AppendsSerialized ==
    /\ Len(MEMORY) <= MEMORY_MAXLEN
    /\ MEMORY = LastN(accepted, MEMORY_MAXLEN)

\* C7 witness: the memory is full and has evicted, after appends by the
\* request being served and by a concurrent one
C7_Witness ==
    /\ Len(accepted) > MEMORY_MAXLEN
    /\ Len(MEMORY) = MEMORY_MAXLEN
    /\ nother > 0
    /\ added # <<>>

\* pair i of mem is a pair for question, compared case-insensitively
Matches(mem, i, question) == lower(mem[i][1]) = lower(question)

HasMatch(mem, question) == \E i \in DOMAIN mem : Matches(mem, i, question)

\* the memory hit for question: the answer of the last matching pair of mem
MemoryHit(mem, question) ==
    LET last == CHOOSE i \in DOMAIN mem :
                    /\ Matches(mem, i, question)
                    /\ \A j \in (i + 1)..Len(mem) : ~Matches(mem, j, question)
    IN  Response(mem[last][2], "local-memory", <<>>, TRUE)

C9_SentinelNotRemembered ==
    /\ \A i \in DOMAIN MEMORY : MEMORY[i][2] # SENTINEL
    /\ ~(resp.provider = "local-memory" /\ resp.answer = SENTINEL)

\* the candidates of the normalized-text group n
GroupSize(cands, n) == Cardinality({i \in DOMAIN cands : normalize_for_vote(cands[i]) = n})

\* some candidate has a non-empty normalized text
Votable(cands) == \E i \in DOMAIN cands : normalize_for_vote(cands[i]) # <<>>

\* the result is a candidate of a group that no group outnumbers
WinsMajority(cands, r) ==
    /\ r \in Range(cands)
    /\ normalize_for_vote(r) # <<>>
    /\ \A i \in DOMAIN cands :
          normalize_for_vote(cands[i]) # <<>> =>
              GroupSize(cands, normalize_for_vote(cands[i]))
                  <= GroupSize(cands, normalize_for_vote(r))

ParisExample == <<T_Paris, T_paris_dot, T_London>>

Perms(s) ==
    LET idx == {f \in [DOMAIN s -> DOMAIN s] : \A i, j \in DOMAIN s : f[i] = f[j] => i = j}
    IN  {[i \in DOMAIN s |-> s[f[i]]] : f \in idx}

\* C11: _vote_select returns the same text for every permutation of its list
\* of candidates.
C11_OrderIndependent ==
    fn = "vote_select_done" => \A p \in Perms(arg) : vote_select(p) = ret

\* the original text of the group n: the first candidate that normalizes to n
GroupText(cands, n) ==
    cands[CHOOSE i \in DOMAIN cands :
             /\ normalize_for_vote(cands[i]) = n
             /\ \A j \in 1..(i - 1) : normalize_for_vote(cands[j]) # n]

\* the result is the original text of a group, and no group of the same
\* count has a longer original text
LongestOfTied(cands, r) ==
    /\ r = GroupText(cands, normalize_for_vote(r))
    /\ \A i \in DOMAIN cands :
          LET n == normalize_for_vote(cands[i])
          IN  (n # <<>> /\ GroupSize(cands, n) = GroupSize(cands, normalize_for_vote(r)))
                  => Len(GroupText(cands, n)) <= Len(r)

\* the candidates have pairwise distinct normalized texts
AllDistinct(cands) ==
    \A i, j \in DOMAIN cands :
        normalize_for_vote(cands[i]) = normalize_for_vote(cands[j]) => i = j

\* C22 as stated: among the groups tied on the count the one with the longer
\* original text is returned, and when all candidates have pairwise distinct
\* normalized texts the result is a longest candidate of the list.
C22_LongestOfAll ==
    fn = "vote_select_done" =>
        /\ Votable(arg) => LongestOfTied(arg, ret)
        /\ (arg # <<>> /\ AllDistinct(arg)) =>
              /\ ret \in Range(arg)
              /\ \A i \in DOMAIN arg : Len(arg[i]) <= Len(ret)

\* C22 amended: among the groups tied on the count the one with the longer
\* original text is returned, and when all candidates have pairwise distinct
\* normalized texts the result is a longest of the candidates whose
\* normalized text is not empty (a candidate of backticks or blanks only is
\* passed over, however long); ["A", "AB", "ABC"] gives "ABC".
C22_LongestOfTied ==
    fn = "vote_select_done" =>
        /\ Votable(arg) => LongestOfTied(arg, ret)
        /\ (Votable(arg) /\ AllDistinct(arg)) =>
              /\ ret \in Range(arg)
              /\ normalize_for_vote(ret) # <<>>
              /\ \A i \in DOMAIN arg :
                    normalize_for_vote(arg[i]) # <<>> => Len(arg[i]) <= Len(ret)
        /\ arg = <<T_A, T_AB, T_ABC>> => ret = T_ABC

\* C22 witness: the three distinct candidates "A", "AB", "ABC" gave "ABC"
C22_Witness ==
    /\ fn = "vote_select_done"
    /\ arg = <<T_A, T_AB, T_ABC>>
    /\ AllDistinct(arg)
    /\ ret = T_ABC

\* C23: the text returned by _vote_select is, character for character, one of
\* the candidates of its list, never their normalized form, and the empty
\* string for the empty list.
C23_ReturnsOriginal ==
    fn = "vote_select_done" =>
        IF arg = <<>> THEN ret = <<>> ELSE \E i \in DOMAIN arg : ret = arg[i]

\* C23 witness: a group of two won and the text returned is the first one of
\* the group as it was given, which differs from its normalized form
C23_Witness ==
    /\ fn = "vote_select_done"
    /\ GroupSize(arg, normalize_for_vote(ret)) = 2
    /\ ret = arg[1]
    /\ ret # normalize_for_vote(ret)
    /\ normalize_for_vote(ret) \notin Range(arg)

\* C24: a request whose question is empty or blank calls no provider and adds
\* nothing to MEMORY, through /api/ask and through answer_question alike.
C24_BlankRejected ==
    (pc # "idle" /\ strip(req.question) = <<>>) =>
        /\ NoProviderCalled
        /\ added = <<>>

\* the previous request was answered through the providers
PrevFromProviders == prev.stage = "providers"

\* C25: after answer_question has answered a question through the providers
\* with a non-empty answer, the following request for the same question, in
\* any letter case, returns that answer from memory and calls no provider
\* (fewer than 50 pairs are added by others in between).
C25_RecalledNextTime ==
    (/\ Answered
     /\ PrevFromProviders
     /\ strip(prev.question) # <<>>
     /\ lower(strip(req.question)) = lower(strip(prev.question))
     /\ nother < MEMORY_MAXLEN) =>
        /\ resp.kind = "response"
        /\ resp.answer = prev.answer
        /\ resp.from_memory
        /\ NoProviderCalled

\* C27: when the previous call was resolved by the math, fact/capital or
\* memory stage and the same question is asked again with no append by
\* another request since, the call returns the same answer under the same
\* provider label.
C27_FastPathIdempotent ==
    (/\ Answered
     /\ prev.stage \in LocalLabels
     /\ req.question = prev.question
     /\ nother = prev.nother) =>
        /\ resp.kind = "response"
        /\ resp.answer = prev.answer
        /\ resp.provider = prev.stage

\* C27 witness: a question resolved by the memory stage was asked again and
\* resolved by the memory stage again
C27_Witness ==
    /\ Answered
    /\ prev.stage = "local-memory"
    /\ req.question = prev.question
    /\ nother = prev.nother
    /\ resp.provider = "local-memory"
    /\ resp.answer = prev.answer

\* C26: in /api/ask the retrieval index is queried before any provider is
\* called for the request, so that every provider call carries its snippets.
C26_RetrievalBeforeProviders ==
    (req.api /\ ~NoProviderCalled) => chat > 0

\* the 4-token windows of a text
Windows(s) == Range(shingles(s, 4))

\* the score a is strictly lower than the score b
ScoreLess(a, b) == a.num * b.den < b.num * a.den

\* C28: a non-empty candidate that shares no 4-token window with any other
\* candidate of the pool scores exactly 1.0, and a candidate whose text another
\* candidate repeats scores strictly lower than a candidate whose text is
\* unique in the pool, whatever the number of tokens of the candidates.
C28_NoveltyExtremes ==
    fn = "novelty_score_done" =>
        /\ \A i \in DOMAIN arg :
              (/\ arg[i].s # <<>>
               /\ \A j \in DOMAIN arg \ {i} : Windows(arg[i].s) \cap Windows(arg[j].s) = {})
                  => (ret[i].num = ret[i].den /\ ret[i].num > 0)
        /\ \A i, j \in DOMAIN arg :
              (/\ \E k \in DOMAIN arg \ {i} : arg[k].s = arg[i].s
               /\ \A k \in DOMAIN arg \ {j} : arg[k].s # arg[j].s)
                  => ScoreLess(ret[i], ret[j])

\* a heading "improved", "improved answer" or "improved version" (in any letter
\* case) that ends at position e of the critique c and is followed by ":" or a
\* line break
HeadingEndsAt(c, e) ==
    /\ e < Len(c)
    /\ c[e + 1] \in {":", "\n"}
    /\ \E h \in {P_Improved, P_Improved \o P_answer, P_Improved \o P_version} :
          /\ Len(h) <= e
          /\ lower(SubSeq(c, e - Len(h) + 1, e)) = lower(h)

HasImprovedSection(c) == \E e \in DOMAIN c : HeadingEndsAt(c, e)

\* the section: what follows the colons and line breaks after the first
\* heading, without the blanks around it
ImprovedSection(c) ==
    LET e == CHOOSE k \in DOMAIN c :
                 HeadingEndsAt(c, k) /\ \A j \in 1..(k - 1) : ~HeadingEndsAt(c, j)
        b == CHOOSE k \in (e + 1)..(Len(c) + 1) :
                 /\ \A j \in (e + 1)..(k - 1) : c[j] \in {":", "\n"}
                 /\ k <= Len(c) => c[k] \notin {":", "\n"}
    IN  strip(SubSeq(c, b, Len(c)))

\* C30 as stated: for a non-empty critique _refine returns the improved
\* section when the critique has one and else the draft, the addendum heading
\* and the raw critique; it never returns the draft alone.
C30_SectionOrAddendum ==
    (fn = "refine_done" /\ arg.critique # <<>>) =>
        /\ HasImprovedSection(arg.critique) => ret = ImprovedSection(arg.critique)
        /\ ~HasImprovedSection(arg.critique) => ret = arg.draft \o ADDENDUM \o arg.critique
        /\ ret # arg.draft

\* C30 amended: for a non-empty critique _refine returns the improved section
\* (without the blanks around it) when the critique has a heading and the
\* section is not blank, the draft alone when the section after the heading is
\* blank, and the draft, the addendum heading and the raw critique when the
\* critique has no heading.
C30_SectionDraftOrAddendum ==
    (fn = "refine_done" /\ arg.critique # <<>>) =>
        IF HasImprovedSection(arg.critique)
        THEN IF ImprovedSection(arg.critique) # <<>>
             THEN ret = ImprovedSection(arg.critique)
             ELSE ret = arg.draft
        ELSE ret = arg.draft \o ADDENDUM \o arg.critique

\* C30 witness: the three outcomes are told apart; here a critique whose
\* heading is followed by a section replaced a non-empty draft
C30_Witness ==
    /\ fn = "refine_done"
    /\ arg.draft = <<"D">>
    /\ arg.critique = P_Improved \o P_version \o <<":">> \o P_fix
    /\ ret = P_fix

\* imagine is running or has returned
InImagine ==
    fn \in {"imagine", "imagine_fallback", "imagine_rank", "imagine_critique",
            "imagine_return", "imagine_done"}

\* C29: the critic is called at most once in an imagine request, and only
\* when the time elapsed since the start, read after ranking, is less than
\* the budget minus 3 seconds; when sampling has taken the budget up to that
\* margin, imagine calls no critic and returns the top-ranked draft as it is.
C29_CriticWithinBudget ==
    InImagine =>
        /\ ret.critics <= 1
        /\ (ret.critics = 1 \/ fn = "imagine_critique") => ret.checked + 3 < arg.max_time_s
        /\ (fn = "imagine_done" /\ ret.sampled + 3 >= arg.max_time_s) =>
              /\ ret.critics = 0
              /\ ret.final = strip(IF ret.scored # <<>> THEN ret.scored[1].c.s ELSE NO_MODELS)

\* C29 witness: with a budget of 5 seconds the sampling took 2, no critic was
\* called and the first of three ranked drafts was returned
C29_Witness ==
    /\ fn = "imagine_done"
    /\ arg.max_time_s = 5
    /\ ret.sampled = 2
    /\ ret.critics = 0
    /\ Len(ret.scored) = 3
    /\ ret.final = strip(ret.scored[1].c.s)

\* scored holds every candidate once, the scores of the ranks 1, 2, ... never
\* rise, and of two candidates of the same score the one given first has the
\* lower rank
RankedByScore(candidates, scored) ==
    /\ Len(scored) = Len(candidates)
    /\ \A r \in DOMAIN scored :
          scored[r].c.id \in DOMAIN candidates /\ scored[r].c = candidates[scored[r].c.id]
    /\ \A r, t \in DOMAIN scored :
          r < t =>
              /\ scored[r].c.id # scored[t].c.id
              /\ ~ScoreLess(scored[r].score, scored[t].score)
              /\ ScoreLess(scored[t].score, scored[r].score)
                     \/ scored[r].c.id < scored[t].c.id

\* what final may be, given the rank-1 text: the text itself, or what
\* _refine makes of it and a critique
FinalsOf(top) ==
    {strip(top)} \cup {strip(refine(top, strip(c))) : c \in {x \in CriticTexts : strip(x) # <<>>}}

\* C31: for a pool of at least one candidate, imagine ranks the candidates by
\* score, highest first, equal scores in input order; final comes from the
\* rank-1 candidate and alternates are the candidates of ranks 2 to 4, in
\* rank order: min(3, count - 1) of them.
C31_RankedAlternates ==
    (fn = "imagine_done" /\ ret.count >= 1) =>
        /\ RankedByScore(ret.candidates, ret.scored)
        /\ ret.count = Len(ret.candidates)
        /\ Len(ret.alternates) = (IF ret.count - 1 < 3 THEN ret.count - 1 ELSE 3)
        /\ \A k \in DOMAIN ret.alternates : ret.alternates[k] = ret.scored[k + 1].c.s
        /\ IF ret.critics = 0 THEN ret.final = strip(ret.scored[1].c.s)
           ELSE ret.final \in FinalsOf(ret.scored[1].c.s)

\* C31 witness: of four candidates two different texts of the same score keep
\* their input order behind a later candidate that outranks the first two; the
\* three candidates below rank 1 are the alternates
C31_Witness ==
    /\ fn = "imagine_done"
    /\ ret.count = 4
    /\ Len(ret.alternates) = 3
    /\ ret.scored[1].c.id > 2
    /\ \E r, t \in DOMAIN ret.scored :
          /\ r < t
          /\ ret.scored[r].c.id < ret.scored[t].c.id
          /\ ret.scored[r].c.s # ret.scored[t].c.s
          /\ ret.scored[r].score = ret.scored[t].score

\* C32: when the sampling returns no candidate, imagine makes exactly one
\* fallback ensemble call (and none otherwise); when that call returns nothing
\* either, imagine returns the fixed "no models replied" text as final, with
\* alternates = [] and count = 0, whatever the critic step then gets.
C32_NoModelsFallback ==
    /\ ret.fallbacks <= 1
    /\ fn = "imagine_done" =>
          /\ ret.fallbacks = 0 => ret.candidates # <<>>
          /\ ret.candidates = <<>> =>
                /\ ret.fallbacks = 1
                /\ ret.final = NO_MODELS
                /\ ret.alternates = <<>>
                /\ ret.count = 0

\* C33: for every seed count n of an imagine request the number of samples
\* requested from the providers is max(3, min(n, 8)), in creative.imagine and
\* in the /api/imagine handler.
C33_SeedsClamped ==
    /\ (fn \in {"imagine_fallback", "imagine_rank", "imagine_critique",
                "imagine_return", "imagine_done"}) =>
          /\ ret.seeds \in 3..8
          /\ ret.seeds = (IF arg.n_seeds < 3 THEN 3 ELSE IF arg.n_seeds > 8 THEN 8 ELSE arg.n_seeds)
    /\ (fn = "api_imagine_done" /\ ret.status = 200 /\ ~ret.zip) =>
          /\ Len(ret.seeds) \in 3..8
          /\ Len(ret.seeds) = (IF arg.n_seeds < 3 THEN 3 ELSE IF arg.n_seeds > 8 THEN 8 ELSE arg.n_seeds)

\* the provider gave nothing usable: None, an exception, or a blank text
Skipped(o) == o.kind # "text" \/ \A i \in DOMAIN o.text : o.text[i] \in WS

\* s without its leading and trailing blanks
Trimmed(s) ==
    IF \A i \in DOMAIN s : s[i] \in WS THEN <<>>
    ELSE SubSeq(s, CHOOSE i \in DOMAIN s : s[i] \notin WS /\ \A j \in 1..(i - 1) : s[j] \in WS,
                   CHOOSE i \in DOMAIN s : s[i] \notin WS /\ \A j \in (i + 1)..Len(s) : s[j] \in WS)

\* C34: ensemble_chat calls the providers one at a time in the configured
\* order; every provider called before the last gave nothing usable; it ends
\* with the trimmed text of the first provider that gave a non-empty answer,
\* calling none after it, or with "" once every provider was skipped; it
\* never raises.
C34_FirstNonEmpty ==
    (fn \in {"ensemble_chat", "ensemble_chat_done"}) =>
        LET order == chat_order(arg.order)
            n     == Len(ret.seen)
        IN  /\ ~ret.raised
            /\ n <= Len(order)
            /\ \A k \in 1..n : ret.seen[k].name = order[k]
            /\ \A k \in 1..(n - 1) : Skipped(ret.seen[k].o)
            /\ fn = "ensemble_chat" => \A k \in 1..n : Skipped(ret.seen[k].o)
            /\ fn = "ensemble_chat_done" =>
                  IF n > 0 /\ ~Skipped(ret.seen[n].o)
                  THEN ret.result = Trimmed(ret.seen[n].o.text) /\ ret.result # <<>>
                  ELSE n = Len(order) /\ ret.result = <<>>

\* C34 witness: the first provider raised, the second returned a blank text,
\* the third answered with blanks around its text and two more were not called
C34_Witness ==
    /\ fn = "ensemble_chat_done"
    /\ Len(ret.seen) = 3
    /\ Len(chat_order(arg.order)) = 5
    /\ ret.seen[1].o.kind = "raise"
    /\ ret.seen[2].o = [kind |-> "text", text |-> <<" ">>]
    /\ ret.seen[3].o.text = <<" ","A"," ">>
    /\ ret.result = <<"A">>

\* C37: a response of answer_question whose provider label is not "none"
\* carries a non-empty answer, and a provider whose reply is empty once
\* stripped is not listed in providers_used.
C37_UsableReplies ==
    (resp.kind = "response" /\ resp.provider # "none") =>
        /\ resp.answer # <<>>
        /\ \A k \in DOMAIN resp.used :
              LET reply == IF got.by[resp.used[k]].kind # "unset"
                           THEN got.by[resp.used[k]] ELSE got.forced
              IN  ~(reply.kind = "text" /\ strip_answer(reply.text) = <<>>)

\* C38: a request adds at most one (question, answer) pair to the short-term
\* memory, served by answer_question directly or through /api/ask.
C38_OneAddPerRequest == Len(added) <= 1

\* the message rows of db in id order, as the rows of a session are read
RowsOf(db, sid) == SelectSeq(db.messages, LAMBDA m : m.session_id = sid)

\* one call on the store: a stored row keeps its id, session, role and
\* content, rows that stay keep their order, a row goes only when its session
\* is wiped, and a wipe takes no row or summary of another session
AppendOnlyStep ==
    LET old == ret.db.messages
        new == ret'.db.messages
        wiped == IF arg'.op = "wipe_session" THEN {arg'.sid} ELSE {}
    IN  /\ \A i \in DOMAIN old :
              \/ \E j \in DOMAIN new : new[j] = old[i]
              \/ old[i].session_id \in wiped
        /\ \A i \in DOMAIN old, j \in DOMAIN new : new[j].id = old[i].id => new[j] = old[i]
        /\ \A i1, i2 \in DOMAIN old, j1, j2 \in DOMAIN new :
              (i1 < i2 /\ new[j1] = old[i1] /\ new[j2] = old[i2]) => j1 < j2
        /\ \A sid \in SessionIds \ wiped :
              /\ \A i \in DOMAIN RowsOf(ret.db, sid) :
                    i <= Len(RowsOf(ret'.db, sid)) /\ RowsOf(ret'.db, sid)[i] = RowsOf(ret.db, sid)[i]
              /\ \A r \in ret.db.summaries :
                    r.session_id = sid =>
                        \/ r \in ret'.db.summaries
                        \/ arg'.op = "save_summary" /\ arg'.sid = sid

\* C35: turns are append-only: across ensure_session, append_message,
\* save_summary and wipe_session calls a stored message keeps its role and
\* content and the order of a session's messages never changes; a message of
\* session s goes only by wipe_session(s), which takes no message or summary
\* of another session.
C35_AppendOnly == [][fn = "store" => AppendOnlyStep]_vars

\* C35 witness: wipe_session("s1") has removed the messages of s1 while the
\* message and the summary of s2 stayed
C35_Witness ==
    /\ fn = "store"
    /\ arg = [op |-> "wipe_session", sid |-> "s1"]
    /\ ret.db.seq = 3
    /\ RowsOf(ret.db, "s1") = <<>>
    /\ Len(RowsOf(ret.db, "s2")) = 1
    /\ \E r \in ret.db.summaries : r.session_id = "s2"

\* C36: every stored message belongs to exactly one existing session (an
\* append for a session id without a session row creates the session or is
\* refused), and its session's updated_at is not older than the message.
C36_MessagesHaveSession ==
    fn = "store" =>
        \A i \in DOMAIN ret.db.messages :
            /\ Cardinality({r \in ret.db.sessions : r.id = ret.db.messages[i].session_id}) = 1
            /\ \A r \in ret.db.sessions :
                  r.id = ret.db.messages[i].session_id =>
                      r.updated_at >= ret.db.messages[i].created_at

\* the rows of the chat the request is about, in the order they were stored
ChatRows == SelectSeq(ret.db.messages, LAMBDA m : m.chat_id = ret.cid)

\* the rows of that chat stored before the request
EarlierRows == SelectSeq(ChatRows, LAMBDA m : m.id <= ret.stored)

\* the rows this request stored
RequestRows == SelectSeq(ChatRows, LAMBDA m : m.id > ret.stored)

\* C39: get_history returns the most recent `limit` messages of the chat in
\* chronological order, so the context build_messages makes for a chat of
\* more than HISTORY_LIMIT messages still holds the latest exchanges.
C39_RecentHistory ==
    (fn \in {"gen", "api_chat_done"} /\ ret.status = 200) =>
        LET n    == Len(EarlierRows)
            k    == IF n < HISTORY_LIMIT THEN n ELSE HISTORY_LIMIT
        IN  /\ Len(ret.hist) = k
            /\ \A i \in 1..k :
                  ret.hist[i] = [role |-> EarlierRows[n - k + i].role,
                                 content |-> EarlierRows[n - k + i].content]
            /\ ret.messages = <<[role |-> "system", content |-> SYSTEM_PROMPT]>> \o ret.hist
                               \o <<[role |-> "user", content |-> arg.message]>>

\* C40: a request stores its user message exactly once, before any chunk is
\* sent; it stores at most one assistant message, after the user message and
\* equal to all chunks sent put together, also when the stream ends with an
\* error; when no chunk was produced it stores no assistant message.
C40_PersistOnce ==
    /\ (fn = "api_chat_done" /\ ret.status = 400) => RequestRows = <<>>
    /\ (fn = "gen") =>
          /\ Len(RequestRows) = 1
          /\ RequestRows[1].role = "user" /\ RequestRows[1].content = arg.message
    /\ (fn = "api_chat_done" /\ ret.status = 200) =>
          /\ RequestRows[1].role = "user" /\ RequestRows[1].content = arg.message
          /\ IF ret.sent = <<>>
             THEN Len(RequestRows) = 1
             ELSE /\ Len(RequestRows) = 2
                  /\ RequestRows[2].role = "assistant"
                  /\ RequestRows[2].content = concat(ret.sent)
                  /\ RequestRows[2].id > RequestRows[1].id

\* C40 witness: two chunks were sent, the provider then failed, and the
\* assistant message holds both chunks
C40_Witness ==
    /\ fn = "api_chat_done"
    /\ ret.ended = "error"
    /\ ret.sent = <<<<"a">>, <<"b","c">>>>
    /\ Len(RequestRows) = 2
    /\ RequestRows[2].content = <<"a","b","c">>

\* the providers whose fan-out call produced text
TextProviders == {p \in Providers : got.by[p].kind = "text"}

\* the texts collected, in the order of providers_used
CollectedTexts(u) == [i \in DOMAIN u |-> strip_answer(got.by[u[i]].text)]

ChosenOrder ==
    IF req.force \in Providers THEN {req.force}
    ELSE IF Range(env.order) \cap Providers # {} THEN Range(env.order) \cap Providers
    ELSE Providers

\* C13: a request that missed all three local stages and has no credential
\* for any provider of its chosen order calls no provider and returns the
\* sentinel response (label "none", providers_used = []).
C13_NoActiveSentinel ==
    (Answered /\ tried = StageOrder /\ ChosenOrder \cap env.keys = {}) =>
        /\ resp = SentinelResponse
        /\ NoProviderCalled

\* C13 witness: the forced provider has no credential although another
\* provider has one, and the sentinel was returned
C13_Witness ==
    /\ resp = SentinelResponse
    /\ tried = StageOrder
    /\ req.force = "mistral"
    /\ env.keys # {}
    /\ NoProviderCalled

\* the input passes the character test of _math_try
AllowedChars(expr) == expr # <<>> /\ \A i \in 1..Len(expr) : expr[i] \in ALLOWED_MATH

\* C14: for an allowed input with an operator whose evaluation fails or gives
\* no number (a dangling operator, unbalanced parentheses, a division by
\* zero), _math_try returns no match.
C14_MathErrorNoMatch ==
    (/\ fn = "math_try_done"
     /\ AllowedChars(arg)
     /\ has_operator(arg)
     /\ sympify(arg).k # "rat")
    => ret = <<>>

\* no character of expr is one of + - * / %
NoOperatorChar(expr) == \A i \in 1..Len(expr) : expr[i] \notin {"+", "-", "*", "/", "%"}

\* C15: for an input without an operator character (such as "42") the math
\* stage _math_try returns no match.
C15_NumberOnlyNoMatch ==
    (fn = "math_try_done" /\ NoOperatorChar(arg)) => ret = <<>>

\* C15 witness (pure function): a number that evaluates is not matched
C15_Witness ==
    /\ fn = "math_try_done"
    /\ arg = Q_42
    /\ sympify(arg).k = "rat"
    /\ ret = <<>>

\* C16: a request answered by the math or fact stage has appended its pair
\* (question, answer) to the memory, and a request answered by the memory
\* stage has appended nothing, whether it came through answer_question or
\* through /api/ask.
C16_MemoryFrame ==
    /\ (resp.kind = "response" /\ resp.provider \in {"local-math", "local-facts"}) =>
          /\ added # <<>>
          /\ \A i \in DOMAIN added : added[i] = <<q, resp.answer>>
    /\ (resp.kind = "response" /\ resp.provider = "local-memory") => added = <<>>

\* C17: after any sequence of memory_add calls the memory holds
\* min(50, k) pairs, where k pairs were accepted, and they are the last
\* accepted ones in the order of their insertion; a pair with an empty
\* question or answer is never held.
C17_MostRecentFifty ==
    fn = "memory_add" =>
        /\ Len(MEMORY) = (IF Len(accepted) < 50 THEN Len(accepted) ELSE 50)
        /\ \A i \in 1..Len(MEMORY) : MEMORY[i] = accepted[Len(accepted) - Len(MEMORY) + i]
        /\ \A i \in 1..Len(MEMORY) : MEMORY[i][1] # <<>> /\ MEMORY[i][2] # <<>>

\* C17 witness: more than 50 pairs were accepted, some calls were refused, and
\* the oldest accepted pair is gone
C17_Witness ==
    /\ fn = "memory_add"
    /\ Len(accepted) > 50
    /\ ret > Len(accepted)
    /\ Len(MEMORY) = 50
    /\ MEMORY[1] = accepted[Len(accepted) - 49]
    /\ MEMORY[1] # accepted[1]

BadNetwork(net) ==
    \/ net.kind = "error"
    \/ net.status < 200
    \/ net.status >= 300
    \/ net.body.kind \in {"malformed", "wrong_shape"}

\* C19: an adapter ends with text or with absent and never with an exception;
\* a transport error or timeout, a non-2xx status and a malformed body all
\* give absent.
C19_AdapterNeverRaises ==
    fn = "adapter_done" =>
        /\ ret.kind \in {"text", "absent"}
        /\ BadNetwork(arg.net) => ret.kind = "absent"

\* C20: a provider without a credential is never called by answer_question,
\* never part of the fan-out, and never appears in providers_used or as the
\* provider label of its response.
C20_NoCredentialNoCall ==
    \A p \in Providers \ env.keys :
        /\ calls[p] = 0
        /\ fut[p] = "idle"
        /\ got.by[p].kind = "unset"
        /\ p \notin Range(resp.used)
        /\ resp.provider # p
        /\ (got.forced.kind # "unset" => req.force # p)

\* C20 witness: the configured order lists a provider without a credential,
\* and a provider with one has answered
C20_Witness ==
    /\ resp.kind = "response"
    /\ resp.used # <<>>
    /\ \E i \in DOMAIN env.order : env.order[i] \in Providers \ env.keys

KnownNames == {"openai", "anthropic", "google", "mistral", "cohere"}

\* the known names of a PROVIDER_ORDER value, in its order
KnownOf(order_env) == SelectSeq(order_env, LAMBDA p : p \in KnownNames)

\* C21: the preference order is [force_provider] when that names a known
\* provider, else the known names of PROVIDER_ORDER in its order when there
\* is one, else openai, anthropic, google, mistral, cohere; the active
\* providers are exactly the members of that order that hold a credential,
\* each once.
C21_OrderPrecedence ==
    fn = "provider_order_done" =>
        /\ ret.order =
              (IF arg.force \in KnownNames THEN <<arg.force>>
               ELSE IF KnownOf(arg.order) # <<>> THEN KnownOf(arg.order)
               ELSE <<"openai", "anthropic", "google", "mistral", "cohere">>)
        /\ Range(ret.active) = Range(ret.order) \cap arg.keys
        /\ Cardinality(Range(ret.active)) = Len(ret.active)

\* C21 witness: no provider is forced by a known name, PROVIDER_ORDER lists an
\* unknown name, and one of its known names has no credential
C21_Witness ==
    /\ fn = "provider_order_done"
    /\ arg.force = "bogus"
    /\ ret.order = <<"google", "openai">>
    /\ ret.active = <<"openai">>

====
